---- MODULE Spec2Model ----
(***************************************************************************)
(* Model of backend/app.py, the Universal Language Support Chatbot.        *)
(*                                                                         *)
(* Python strings are sequences of one-character strings, so that          *)
(* substring tests, lower(), strip(), split() and len() are computed as    *)
(* the code computes them.  The external collaborators (langdetect,        *)
(* googletrans, the Ollama HTTP endpoint, Whisper, the file system) are    *)
(* modelled by their possible outcomes.                                     *)
(***************************************************************************)
EXTENDS Integers, Sequences, FiniteSets, TLC

VARIABLES
  pc,                 \* position of the request in progress
  op,                 \* the operation the request invoked
  text,               \* text argument of translate_text / translate_file_content
  target_language,    \* target_language argument
  source_language,    \* source_language argument (None when absent)
  detect_outcome,     \* what langdetect.detect does for this request
  translator_fails,   \* indices of the engine calls that raise
  result,             \* value returned by the operation
  detect_calls,       \* number of calls made to langdetect.detect
  translate_calls,    \* arguments of the calls made to translator.translate
  tt_calls,           \* translate_text calls made by translate_file_content
  user_message,       \* message argument of the classifier / the LLM adapter
  intent,             \* value returned by classify_query
  user_language,      \* language argument of generate_response_with_ollama
  llm_outcome,        \* how requests.post to the LLM backend ends
  WHISPER_AVAILABLE,  \* the speech library was imported
  whisper_model,      \* the loaded speech model, None when loading failed
  speech_request,     \* body of the speech-to-text request
  disk,               \* temporary audio files that exist on disk
  temp_file_path,     \* local temp_file_path of the speech handler
  created,            \* temporary files created by the request in progress
  status,             \* HTTP status of the response the handler returned
  served,             \* number of speech requests received
  profile,            \* value returned by detect_linguistic_complexity
  request,            \* the HTTP request an endpoint handler serves
  environment,        \* what the external collaborators do during the request
  response,           \* the HTTP response the endpoint handler returned
  calls               \* the external calls the endpoint handler made

translateVars ==
  << text, target_language, source_language, detect_outcome, translator_fails,
     result, detect_calls, translate_calls, tt_calls >>

classifyVars == << user_message, intent >>

llmVars == << user_language, llm_outcome >>

speechVars ==
  << WHISPER_AVAILABLE, whisper_model, speech_request, disk, temp_file_path,
     created, status, served >>

complexityVars == << profile >>

serverVars == << request, environment, response, calls >>

vars ==
  << pc, op, translateVars, classifyVars, llmVars, speechVars, complexityVars,
     serverVars >>

-----------------------------------------------------------------------------
(* Python values and string primitives                                     *)

\* Python's None, distinct from every string (strings hold single characters).
None == << "None" >>

\* An exception raised by an external collaborator.
Raises == << "raise" >>

\* A local assignment  x = v ; F(x)  that evaluates v once.
Bind(v, F(_)) == CHOOSE out \in { F(x) : x \in { v } } : TRUE

\* str.isspace() for the characters used here.
Whitespace == { " ", "\n", "\t" }

LowerChar(c) ==
  CASE c = "A" -> "a" [] c = "B" -> "b" [] c = "C" -> "c" [] c = "D" -> "d"
    [] c = "E" -> "e" [] c = "F" -> "f" [] c = "G" -> "g" [] c = "H" -> "h"
    [] c = "I" -> "i" [] c = "J" -> "j" [] c = "K" -> "k" [] c = "L" -> "l"
    [] c = "M" -> "m" [] c = "N" -> "n" [] c = "O" -> "o" [] c = "P" -> "p"
    [] c = "Q" -> "q" [] c = "R" -> "r" [] c = "S" -> "s" [] c = "T" -> "t"
    [] c = "U" -> "u" [] c = "V" -> "v" [] c = "W" -> "w" [] c = "X" -> "x"
    [] c = "Y" -> "y" [] c = "Z" -> "z" [] OTHER -> c

\* str.lower()
lower(s) == [ i \in 1..Len(s) |-> LowerChar(s[i]) ]

\* k in s  (substring test; the empty string is in every string)
contains(s, k) ==
  \E i \in 0..(Len(s) - Len(k)) : \A j \in 1..Len(k) : s[i + j] = k[j]

\* s.startswith(k)
startswith(s, k) ==
  Len(k) <= Len(s) /\ \A j \in 1..Len(k) : s[j] = k[j]

\* any(k in s for k in list)
any_in(list, s) == \E n \in 1..Len(list) : contains(s, list[n])

\* sum(1 for k in list if k in s)
count_in(list, s) == Cardinality({ n \in 1..Len(list) : contains(s, list[n]) })

\* str.strip()
strip(s) ==
  LET solid == { i \in 1..Len(s) : s[i] \notin Whitespace }
  IN  IF solid = {} THEN << >>
      ELSE SubSeq(s, CHOOSE i \in solid : \A j \in solid : i <= j,
                     CHOOSE i \in solid : \A j \in solid : j <= i)

\* len(s.split()): the number of maximal runs of non-whitespace characters
word_count(s) ==
  Cardinality({ i \in 1..Len(s) :
                  s[i] \notin Whitespace /\ (i = 1 \/ s[i - 1] \in Whitespace) })

\* s.split(sep) for a non-empty separator: cut at the leftmost occurrences
RECURSIVE split(_, _)
split(s, sep) ==
  LET hits == { i \in 1..(Len(s) - Len(sep) + 1) :
                  \A j \in 1..Len(sep) : s[i + j - 1] = sep[j] }
  IN  IF hits = {} THEN << s >>
      ELSE LET i == CHOOSE h \in hits : \A g \in hits : h <= g
           IN  << SubSeq(s, 1, i - 1) >>
                 \o split(SubSeq(s, i + Len(sep), Len(s)), sep)

\* sep.join(parts)
RECURSIVE join(_, _)
join(parts, sep) ==
  IF parts = << >> THEN << >>
  ELSE IF Len(parts) = 1 THEN parts[1]
  ELSE parts[1] \o sep \o join(Tail(parts), sep)

-----------------------------------------------------------------------------
(* UniversalChatbot.__init__ : the fixed tables                            *)

\* self.supported_languages, in insertion order: << code, display name >>
supported_languages ==
  << << <<"e","n">>, <<"E","n","g","l","i","s","h">> >>,
     << <<"e","s">>, <<"S","p","a","n","i","s","h">> >>,
     << <<"f","r">>, <<"F","r","e","n","c","h">> >>,
     << <<"d","e">>, <<"G","e","r","m","a","n">> >>,
     << <<"h","i">>, <<"H","i","n","d","i">> >>,
     << <<"t","e">>, <<"T","e","l","u","g","u">> >>,
     << <<"m","r">>, <<"M","a","r","a","t","h","i">> >>,
     << <<"k","n">>, <<"K","a","n","n","a","d","a">> >>,
     << <<"g","u">>, <<"G","u","j","a","r","a","t","i">> >>,
     << <<"t","a">>, <<"T","a","m","i","l">> >>,
     << <<"m","l">>, <<"M","a","l","a","y","a","l","a","m">> >>,
     << <<"p","a">>, <<"P","u","n","j","a","b","i">> >>,
     << <<"a","r">>, <<"A","r","a","b","i","c">> >>,
     << <<"z","h">>, <<"C","h","i","n","e","s","e">> >>,
     << <<"j","a">>, <<"J","a","p","a","n","e","s","e">> >>,
     << <<"k","o">>, <<"K","o","r","e","a","n">> >>,
     << <<"p","t">>, <<"P","o","r","t","u","g","u","e","s","e">> >>,
     << <<"r","u">>, <<"R","u","s","s","i","a","n">> >>,
     << <<"i","t">>, <<"I","t","a","l","i","a","n">> >> >>

\* the keys of self.supported_languages
supported_codes == { supported_languages[n][1] : n \in 1..Len(supported_languages) }

idiom_patterns ==
  << <<"p","i","e","c","e"," ","o","f"," ","c","a","k","e">>,
     <<"b","r","e","a","k"," ","a"," ","l","e","g">>,
     <<"i","t","'","s"," ","r","a","i","n","i","n","g"," ","c","a","t","s"," ","a","n","d"," ","d","o","g","s">>,
     <<"k","i","l","l"," ","t","w","o"," ","b","i","r","d","s">>,
     <<"t","h","e"," ","b","a","l","l"," ","i","s"," ","i","n"," ","y","o","u","r"," ","c","o","u","r","t">>,
     <<"b","r","e","a","k"," ","t","h","e"," ","i","c","e">>,
     <<"o","n","c","e"," ","i","n"," ","a"," ","b","l","u","e"," ","m","o","o","n">>,
     <<"b","i","t","e"," ","t","h","e"," ","b","u","l","l","e","t">>,
     <<"h","i","t"," ","t","h","e"," ","n","a","i","l"," ","o","n"," ","t","h","e"," ","h","e","a","d">>,
     <<"w","h","e","n"," ","p","i","g","s"," ","f","l","y">> >>

formality_formal ==
  << <<"s","i","r">>, <<"m","a","d","a","m">>, <<"p","l","e","a","s","e">>, <<"k","i","n","d","l","y">>, <<"w","o","u","l","d"," ","y","o","u">>, <<"c","o","u","l","d"," ","y","o","u">>, <<"m","a","y"," ","i">> >>

formality_informal ==
  << <<"h","e","y">>, <<"y","o">>, <<"w","h","a","t","'","s"," ","u","p">>, <<"g","o","n","n","a">>, <<"w","a","n","n","a">>, <<"y","e","a","h">>, <<"n","a","h">> >>

-----------------------------------------------------------------------------
(* The linguistic analyzer                                                 *)

\* detect_formality_level resolving a tie as formal.
detect_formality_level_tie_formal(text_lower) ==
  LET formal_count   == count_in(formality_formal, text_lower)
      informal_count == count_in(formality_informal, text_lower)
  IN  IF formal_count >= informal_count THEN "formal" ELSE "informal"

detect_formality_level(text_lower) ==
  LET formal_count   == count_in(formality_formal, text_lower)
      informal_count == count_in(formality_informal, text_lower)
  IN  IF formal_count > informal_count THEN "formal"
      ELSE IF informal_count > formal_count THEN "informal"
      ELSE "neutral"

cultural_keywords ==
  << <<"t","h","a","n","k","s","g","i","v","i","n","g">>, <<"d","i","w","a","l","i">>, <<"c","h","r","i","s","t","m","a","s">>, <<"r","a","m","a","d","a","n">>, <<"n","e","w"," ","y","e","a","r">>,
     <<"s","u","b","w","a","y">>, <<"u","n","d","e","r","g","r","o","u","n","d">>, <<"t","u","b","e">>, <<"m","e","t","r","o">>, <<"f","o","o","t","b","a","l","l">>, <<"s","o","c","c","e","r">>,
     <<"d","o","l","l","a","r","s">>, <<"e","u","r","o","s">>, <<"p","o","u","n","d","s">>, <<"r","u","p","e","e","s">>, <<"y","e","n">> >>

detect_cultural_references(text_lower) == any_in(cultural_keywords, text_lower)

positive_words ==
  << <<"g","r","e","a","t">>, <<"e","x","c","e","l","l","e","n","t">>, <<"w","o","n","d","e","r","f","u","l">>, <<"a","m","a","z","i","n","g">>, <<"f","a","n","t","a","s","t","i","c">>, <<"l","o","v","e">>, <<"h","a","p","p","y">> >>

negative_words ==
  << <<"t","e","r","r","i","b","l","e">>, <<"a","w","f","u","l">>, <<"h","a","t","e">>, <<"a","n","g","r","y">>, <<"f","r","u","s","t","r","a","t","e","d">>, <<"d","i","s","a","p","p","o","i","n","t","e","d">>, <<"b","a","d">> >>

detect_sentiment_indicators(text_lower) ==
  LET positive_count == count_in(positive_words, text_lower)
      negative_count == count_in(negative_words, text_lower)
  IN  IF positive_count > negative_count THEN "positive"
      ELSE IF negative_count > positive_count THEN "negative"
      ELSE "neutral"

complex_markers ==
  << <<"h","o","w","e","v","e","r">>, <<"n","e","v","e","r","t","h","e","l","e","s","s">>, <<"f","u","r","t","h","e","r","m","o","r","e">>, <<"c","o","n","s","e","q","u","e","n","t","l","y">>, <<"m","e","a","n","w","h","i","l","e">>,
     <<"w","h","i","c","h">>, <<"w","h","o","m">>, <<"w","h","o","s","e">>, <<"t","h","a","t">>, <<"a","l","t","h","o","u","g","h">>, <<"w","h","e","r","e","a","s">> >>

RECURSIVE total_words(_)
total_words(sentences) ==
  IF sentences = << >> THEN 0
  ELSE word_count(Head(sentences)) + total_words(Tail(sentences))

\* avg_sentence_length > n, with avg = total words / number of sentences
\* (text.split('.') is never empty, so max(len(sentences), 1) = len(sentences))
assess_grammar_complexity(t) ==
  LET sentences == split(t, << "." >>)
      words     == total_words(sentences)
      has_complex_structures == any_in(complex_markers, lower(t))
  IN  IF words > 15 * Len(sentences) \/ has_complex_structures THEN "complex"
      ELSE IF words > 8 * Len(sentences) THEN "moderate"
      ELSE "simple"

has_idioms(text_lower) == any_in(idiom_patterns, text_lower)

detect_linguistic_complexity(t) ==
  LET text_lower == lower(t)
  IN  [ has_idioms              |-> has_idioms(text_lower),
        formality_level         |-> detect_formality_level(text_lower),
        has_cultural_references |-> detect_cultural_references(text_lower),
        sentiment               |-> detect_sentiment_indicators(text_lower),
        grammar_complexity      |-> assess_grammar_complexity(t) ]

-----------------------------------------------------------------------------
(* External collaborators of the translation adapter                       *)

\* translator.translate(text, dest=..., src=...).text when the engine answers:
\* the engine is a black box, modelled as marking the text with the
\* destination language so that a translation differs from its input.
translator_translate(t, dest, src) == << "[" >> \o dest \o << "]" >> \o t

\* str(e) of an exception raised by the engine
engine_error == <<"e","n","g","i","n","e"," ","u","n","a","v","a","i","l","a","b","l","e">>

\* detect_language letting the detector's exception through.
detect_language_uncaught(t, det) ==
  IF det \in supported_codes \/ det = Raises THEN det ELSE <<"e","n">>

\* detect_language(text) when langdetect.detect does det: the detected code
\* when it is supported, "en" when it is not or when the detector raises.
detect_language(t, det) ==
  IF det = Raises THEN <<"e","n">>
  ELSE IF det \in supported_codes THEN det ELSE <<"e","n">>

-----------------------------------------------------------------------------
(* The translation adapter                                                 *)

idiom_note == <<"N","o","t","e",":"," ","T","h","i","s"," ","t","e","x","t"," ","c","o","n","t","a","i","n","s"," ","i","d","i","o","m","s"," ","t","h","a","t"," ","m","a","y"," ","n","o","t"," ","t","r","a","n","s","l","a","t","e"," ","l","i","t","e","r","a","l","l","y",".">>

cultural_note == <<"N","o","t","e",":"," ","T","h","i","s"," ","t","e","x","t"," ","c","o","n","t","a","i","n","s"," ","c","u","l","t","u","r","a","l"," ","r","e","f","e","r","e","n","c","e","s"," ","t","h","a","t"," ","m","a","y"," ","n","e","e","d"," ","l","o","c","a","l","i","z","a","t","i","o","n",".">>

translation_failed == <<"T","r","a","n","s","l","a","t","i","o","n"," ","f","a","i","l","e","d",":"," ">>

\* translate_engine with the explanatory notes forgotten.
translate_engine_without_notes(t, target, src, detects, complexity, fails, k) ==
  LET call == [ text |-> t, dest |-> target, src |-> src ]
  IN  IF (k + 1) \in fails
      THEN [ ret     |-> translation_failed \o engine_error,
             detects |-> detects, engine |-> << call >> ]
      ELSE [ ret     |-> translator_translate(t, target, src),
             detects |-> detects, engine |-> << call >> ]

\* The part of translate_text after the identity short-circuit, with the
\* resolved source language src and the analysis of the text.
translate_engine(t, target, src, detects, complexity, fails, k) ==
  LET call       == [ text |-> t, dest |-> target, src |-> src ]
      translated == translator_translate(t, target, src)
      explanatory_notes ==
        (IF complexity.has_idioms THEN << idiom_note >> ELSE << >>)
        \o (IF complexity.has_cultural_references
            THEN << cultural_note >> ELSE << >>)
  IN  IF (k + 1) \in fails
      THEN [ ret     |-> translation_failed \o engine_error,
             detects |-> detects, engine |-> << call >> ]
      ELSE IF complexity.has_idioms \/ complexity.has_cultural_references
      THEN [ ret     |-> translated \o <<"\n","\n">> \o join(explanatory_notes, <<" ">>),
             detects |-> detects, engine |-> << call >> ]
      ELSE [ ret |-> translated, detects |-> detects, engine |-> << call >> ]

\* translate_text with the identity short-circuit forgotten.
translate_text_without_shortcut(t, target, source, det, fails, k) ==
  LET src     == IF source = None THEN detect_language(t, det) ELSE source
      detects == IF source = None THEN 1 ELSE 0
  IN  Bind(detect_linguistic_complexity(t),
           LAMBDA complexity :
             translate_engine(t, target, src, detects, complexity, fails, k))

\* translate_text(text, target_language, source_language), with the detector
\* outcome det, the set fails of engine calls that raise, and k engine calls
\* made before this one.  Returns the value and the external calls made.
translate_text(t, target, source, det, fails, k) ==
  LET src     == IF source = None THEN detect_language(t, det) ELSE source
      detects == IF source = None THEN 1 ELSE 0
  IN  IF src = target
      THEN [ ret |-> t, detects |-> detects, engine |-> << >> ]
      ELSE Bind(detect_linguistic_complexity(t),
                LAMBDA complexity :
                  translate_engine(t, target, src, detects, complexity, fails, k))

\* max_chunk_size = 4000 in the code (app.py line 255); the model keeps the
\* comparison and scales the limit so that texts on both sides of it are small.
max_chunk_size == 6

file_empty == <<"F","i","l","e"," ","a","p","p","e","a","r","s"," ","t","o"," ","b","e"," ","e","m","p","t","y"," ","o","r"," ","u","n","r","e","a","d","a","b","l","e",".">>

\* What translate_file_content has done before any chunk is translated.
no_chunks ==
  [ translated_paragraphs |-> << >>, detects |-> 0, engine |-> << >>, tt |-> << >> ]

\* translated_paragraphs.append(self.translate_text(chunk, ...)), added to
\* what the calls before it returned and did.
translate_chunk(acc, chunk, target, source, det, fails) ==
  Bind(translate_text(chunk, target, source, det, fails, Len(acc.engine)),
       LAMBDA r :
         [ translated_paragraphs |-> Append(acc.translated_paragraphs, r.ret),
           detects |-> acc.detects + r.detects,
           engine  |-> acc.engine \o r.engine,
           tt      |-> Append(acc.tt, [ text |-> chunk, ret |-> r.ret ]) ])

\* flush_chunk sending the chunk as accumulated, not stripped.
flush_chunk_unstripped(acc, current_chunk, target, source, det, fails) ==
  IF strip(current_chunk) # << >>
  THEN translate_chunk(acc, current_chunk, target, source, det, fails)
  ELSE acc

\* if current_chunk.strip(): translated_paragraphs.append(translate_text(...))
flush_chunk(acc, current_chunk, target, source, det, fails) ==
  IF strip(current_chunk) # << >>
  THEN translate_chunk(acc, strip(current_chunk), target, source, det, fails)
  ELSE acc

\* chunk_step losing the paragraph that starts a new chunk.
chunk_step_dropping(paragraph, current_chunk, acc, target, source, det, fails) ==
  IF Len(current_chunk \o paragraph \o <<"\n","\n">>) <= max_chunk_size
  THEN [ current_chunk |-> current_chunk \o paragraph \o <<"\n","\n">>, acc |-> acc ]
  ELSE [ current_chunk |-> << >>,
         acc |-> flush_chunk(acc, current_chunk, target, source, det, fails) ]

\* One iteration of  for paragraph in paragraphs
chunk_step(paragraph, current_chunk, acc, target, source, det, fails) ==
  IF Len(current_chunk \o paragraph \o <<"\n","\n">>) <= max_chunk_size
  THEN [ current_chunk |-> current_chunk \o paragraph \o <<"\n","\n">>, acc |-> acc ]
  ELSE [ current_chunk |-> paragraph \o <<"\n","\n">>,
         acc |-> flush_chunk(acc, current_chunk, target, source, det, fails) ]

\* for paragraph in paragraphs: ... ; returns the last current_chunk and what
\* the translations made inside the loop returned and did
RECURSIVE chunk_loop(_, _, _, _, _, _, _, _)
chunk_loop(paragraphs, n, current_chunk, acc, target, source, det, fails) ==
  IF n > Len(paragraphs)
  THEN [ current_chunk |-> current_chunk, acc |-> acc ]
  ELSE Bind(chunk_step(paragraphs[n], current_chunk, acc,
                       target, source, det, fails),
            LAMBDA s : chunk_loop(paragraphs, n + 1, s.current_chunk, s.acc,
                                  target, source, det, fails))

\* translate_file_content chunking every text, however short.
translate_file_content_always_chunked(t, target, source, det, fails) ==
  IF t = << >> \/ strip(t) = << >>
  THEN [ ret |-> file_empty, detects |-> 0, engine |-> << >>, tt |-> << >> ]
  ELSE Bind(chunk_loop(split(t, <<"\n","\n">>), 1, << >>, no_chunks,
                       target, source, det, fails),
            LAMBDA loop :
              Bind(flush_chunk(loop.acc, loop.current_chunk,
                               target, source, det, fails),
                   LAMBDA done :
                     [ ret     |-> join(done.translated_paragraphs, <<"\n","\n">>),
                       detects |-> done.detects, engine |-> done.engine,
                       tt      |-> done.tt ]))

\* translate_file_content(text_content, target_language, source_language).
\* translate_text catches every exception, so the outer except is never taken.
translate_file_content(t, target, source, det, fails) ==
  IF t = << >> \/ strip(t) = << >>
  THEN [ ret |-> file_empty, detects |-> 0, engine |-> << >>, tt |-> << >> ]
  ELSE IF Len(t) <= max_chunk_size
  THEN Bind(translate_text(t, target, source, det, fails, 0),
            LAMBDA r :
              [ ret |-> r.ret, detects |-> r.detects, engine |-> r.engine,
                tt  |-> << [ text |-> t, ret |-> r.ret ] >> ])
  ELSE Bind(chunk_loop(split(t, <<"\n","\n">>), 1, << >>, no_chunks,
                       target, source, det, fails),
            LAMBDA loop :
              Bind(flush_chunk(loop.acc, loop.current_chunk,
                               target, source, det, fails),
                   LAMBDA done :
                     [ ret     |-> join(done.translated_paragraphs, <<"\n","\n">>),
                       detects |-> done.detects, engine |-> done.engine,
                       tt      |-> done.tt ]))

-----------------------------------------------------------------------------
(* The query classifier                                                    *)

translation_patterns ==
  << <<"t","r","a","n","s","l","a","t","e">>, <<"t","r","a","n","s","l","a","t","i","o","n">>, <<"c","o","n","v","e","r","t"," ","t","o">>, <<"h","o","w"," ","t","o"," ","s","a","y">>, <<"w","h","a","t"," ","d","o","e","s">>,
     <<"m","e","a","n"," ","i","n">>, <<"s","a","y"," ","i","n">> >>

sdg_keywords ==
  << <<"s","d","g">>, <<"s","u","s","t","a","i","n","a","b","l","e"," ","d","e","v","e","l","o","p","m","e","n","t">>, <<"i","n","e","q","u","a","l","i","t","y">>, <<"e","q","u","a","l","i","t","y">>,
     <<"d","i","s","c","r","i","m","i","n","a","t","i","o","n">>, <<"r","i","g","h","t","s">>, <<"b","a","r","r","i","e","r">> >>

help_keywords ==
  << <<"h","e","l","p">>, <<"w","h","a","t"," ","c","a","n"," ","y","o","u"," ","d","o">>, <<"f","e","a","t","u","r","e","s">>, <<"h","o","w"," ","d","o"," ","y","o","u"," ","w","o","r","k">>, <<"c","a","p","a","b","i","l","i","t","i","e","s">> >>

greeting_keywords ==
  << <<"h","e","l","l","o">>, <<"h","i">>, <<"h","e","y">>, <<"g","r","e","e","t","i","n","g","s">>, <<"g","o","o","d"," ","m","o","r","n","i","n","g">>, <<"g","o","o","d"," ","a","f","t","e","r","n","o","o","n">> >>

language_culture_keywords ==
  << <<"l","a","n","g","u","a","g","e">>, <<"s","p","e","a","k">>, <<"c","o","m","m","u","n","i","c","a","t","i","o","n">>, <<"c","u","l","t","u","r","e">>, <<"c","u","l","t","u","r","a","l">>, <<"i","d","i","o","m">>,
     <<"p","h","r","a","s","e">>, <<"e","x","p","r","e","s","s","i","o","n">>, <<"f","o","r","m","a","l","i","t","y">>, <<"f","o","r","m","a","l">>, <<"i","n","f","o","r","m","a","l">>, <<"g","r","a","m","m","a","r">>,
     <<"f","i","g","u","r","a","t","i","v","e">>, <<"l","i","t","e","r","a","l">>, <<"p","o","l","i","t","e","n","e","s","s">>, <<"a","m","b","i","g","u","o","u","s">>, <<"a","m","b","i","g","u","i","t","y">>,
     <<"s","e","n","t","i","m","e","n","t">>, <<"t","o","n","e">> >>

technology_keywords ==
  << <<"t","e","c","h","n","o","l","o","g","y">>, <<"a","i">>, <<"a","r","t","i","f","i","c","i","a","l"," ","i","n","t","e","l","l","i","g","e","n","c","e">>, <<"m","a","c","h","i","n","e"," ","l","e","a","r","n","i","n","g">>, <<"n","l","p">>,
     <<"n","a","t","u","r","a","l"," ","l","a","n","g","u","a","g","e">>, <<"c","o","m","p","u","t","e","r">>, <<"p","r","o","g","r","a","m","m","i","n","g">>, <<"s","c","i","e","n","c","e">>, <<"p","h","y","s","i","c","s">>,
     <<"c","h","e","m","i","s","t","r","y">>, <<"b","i","o","l","o","g","y">>, <<"m","a","t","h","e","m","a","t","i","c","s">> >>

question_keywords ==
  << <<"w","h","a","t"," ","i","s">>, <<"h","o","w"," ","d","o","e","s">>, <<"w","h","y"," ","i","s">>, <<"e","x","p","l","a","i","n">>, <<"t","e","l","l"," ","m","e"," ","a","b","o","u","t">>, <<"d","e","s","c","r","i","b","e">>,
     <<"d","e","f","i","n","e">>, <<"d","i","f","f","e","r","e","n","c","e"," ","b","e","t","w","e","e","n">> >>

\* classify_query with the greeting rule not gated by the word count.
classify_query_ungated(message_lower) ==
  IF any_in(translation_patterns, message_lower) THEN "translation"
  ELSE IF any_in(sdg_keywords, message_lower) THEN "sdg_equality"
  ELSE IF any_in(help_keywords, message_lower) THEN "help_info"
  ELSE IF any_in(greeting_keywords, message_lower) THEN "greeting"
  ELSE IF any_in(language_culture_keywords, message_lower) THEN "language_culture"
  ELSE IF any_in(technology_keywords, message_lower) THEN "general_question"
  ELSE IF any_in(question_keywords, message_lower) \/ contains(message_lower, <<"?">>)
       THEN "general_question"
  ELSE "general"

\* classify_query testing the help rule after the greeting rule.
classify_query_reordered(message_lower) ==
  IF any_in(translation_patterns, message_lower) THEN "translation"
  ELSE IF any_in(sdg_keywords, message_lower) THEN "sdg_equality"
  ELSE IF any_in(greeting_keywords, message_lower) /\ word_count(message_lower) <= 5
       THEN "greeting"
  ELSE IF any_in(help_keywords, message_lower) THEN "help_info"
  ELSE IF any_in(language_culture_keywords, message_lower) THEN "language_culture"
  ELSE IF any_in(technology_keywords, message_lower) THEN "general_question"
  ELSE IF any_in(question_keywords, message_lower) \/ contains(message_lower, <<"?">>)
       THEN "general_question"
  ELSE "general"

classify_query(message_lower) ==
  IF any_in(translation_patterns, message_lower) THEN "translation"
  ELSE IF any_in(sdg_keywords, message_lower) THEN "sdg_equality"
  ELSE IF any_in(help_keywords, message_lower) THEN "help_info"
  ELSE IF any_in(greeting_keywords, message_lower) /\ word_count(message_lower) <= 5
       THEN "greeting"
  ELSE IF any_in(language_culture_keywords, message_lower) THEN "language_culture"
  ELSE IF any_in(technology_keywords, message_lower) THEN "general_question"
  ELSE IF any_in(question_keywords, message_lower) \/ contains(message_lower, <<"?">>)
       THEN "general_question"
  ELSE "general"

-----------------------------------------------------------------------------
(* The LLM adapter                                                         *)

\* Outcomes of requests.post(OLLAMA_URL, ...): an HTTP response with a status
\* and a body, or an exception.  The body of a response is the text of its
\* "response" field, NotJson when response.json() raises, or NullField when
\* the field is null (so that .strip() raises).
NotJson == << "not json" >>

NullField == << "null" >>

HttpResponse(status_code, body) ==
  [ kind |-> "response", status |-> status_code, body |-> body ]

HttpException(kind) == [ kind |-> kind, status |-> 0, body |-> None ]

\* A canned reply of get_fallback_response: one token for the fixed text of
\* the branch, the language the text is written in, and the message where
\* the text quotes it.
canned(branch, languages, language, quoted) ==
  << "canned reply", branch >>
    \o (IF language \in languages THEN language ELSE <<"e","n">>)
    \o << ":" >> \o quoted

fallback_greeting_keywords ==
  << <<"h","e","l","l","o">>, <<"h","i">>, <<"h","e","y">>, <<"g","r","e","e","t","i","n","g","s">>, <<"g","o","o","d"," ","m","o","r","n","i","n","g">>, <<"g","o","o","d"," ","a","f","t","e","r","n","o","o","n">>,
     <<"g","o","o","d"," ","e","v","e","n","i","n","g">> >>

fallback_translation_keywords == << <<"t","r","a","n","s","l","a","t","e">>, <<"t","r","a","n","s","l","a","t","i","o","n">>, <<"c","o","n","v","e","r","t">> >>

fallback_help_keywords ==
  << <<"h","e","l","p">>, <<"w","h","a","t"," ","c","a","n"," ","y","o","u"," ","d","o">>, <<"h","o","w"," ","d","o"," ","y","o","u"," ","w","o","r","k">>, <<"f","e","a","t","u","r","e","s">> >>

fallback_sdg_keywords ==
  << <<"i","n","e","q","u","a","l","i","t","y">>, <<"d","i","s","c","r","i","m","i","n","a","t","i","o","n">>, <<"e","q","u","a","l","i","t","y">>, <<"r","i","g","h","t","s">>, <<"i","n","c","l","u","s","i","o","n">>, <<"s","d","g">>,
     <<"s","u","s","t","a","i","n","a","b","l","e">> >>

fallback_question_keywords ==
  << <<"w","h","a","t">>, <<"h","o","w">>, <<"w","h","y">>, <<"w","h","e","n">>, <<"w","h","e","r","e">>, <<"w","h","o">> >>

get_fallback_response(message, language) ==
  LET message_lower == lower(message)
  IN  IF any_in(fallback_greeting_keywords, message_lower)
      THEN canned("greeting", { <<"e","n">>, <<"e","s">>, <<"f","r">>, <<"h","i">> }, language, << >>)
      ELSE IF any_in(fallback_translation_keywords, message_lower)
      THEN canned("translation", { <<"e","n">>, <<"e","s">>, <<"f","r">> }, language, << >>)
      ELSE IF any_in(fallback_help_keywords, message_lower)
      THEN canned("help", { <<"e","n">>, <<"e","s">>, <<"f","r">> }, language, << >>)
      ELSE IF any_in(fallback_sdg_keywords, message_lower)
      THEN canned("sdg", { <<"e","n">>, <<"e","s">>, <<"f","r">> }, language, << >>)
      ELSE IF contains(message, <<"?">>) \/ any_in(fallback_question_keywords, message_lower)
      THEN canned("question", { <<"e","n">>, <<"e","s">>, <<"f","r">> }, language, message)
      ELSE canned("default", { <<"e","n">>, <<"e","s">>, <<"f","r">> }, language, message)

\* s.split('.', 1)[-1]: what follows the first period, or s when it has none
after_first_period(s) ==
  LET dots == { i \in 1..Len(s) : s[i] = "." }
  IN  IF dots = {} THEN s
      ELSE SubSeq(s, (CHOOSE i \in dots : \A j \in dots : i <= j) + 1, Len(s))

\* The "remove common prefixes" steps of generate_response_with_ollama.
strip_prefixes(generated_response) ==
  LET first == IF startswith(lower(generated_response), <<"a","s"," ","a","n"," ","a","i">>)
               THEN strip(after_first_period(generated_response))
               ELSE generated_response
  IN  IF startswith(lower(first), <<"a","s"," ","a">>)
      THEN strip(after_first_period(first))
      ELSE first

\* The prompt generate_response_with_ollama builds, by its kind.
prompt_kind(message) ==
  LET query_type == classify_query(lower(message))
  IN  IF query_type \in { "translation", "general_question", "greeting", "language_culture" }
      THEN query_type
      ELSE "user_message"

\* generate_response_with_ollama catching ConnectionError only.
generate_response_uncaught(message, language, outcome) ==
  IF outcome.kind = "ConnectionError" THEN get_fallback_response(message, language)
  ELSE IF outcome.kind # "response" THEN Raises
  ELSE IF outcome.status # 200 THEN get_fallback_response(message, language)
  ELSE IF outcome.body \in { NotJson, NullField } THEN Raises
  ELSE LET generated_response == strip_prefixes(strip(outcome.body))
       IN  IF strip(outcome.body) # << >> /\ Len(generated_response) > 10
           THEN generated_response
           ELSE get_fallback_response(message, language)

\* generate_response_with_ollama(message, language) when requests.post ends
\* as outcome.  Every exception, of the request or of reading its body, is
\* caught and answered with the fallback.
generate_response_with_ollama(message, language, outcome) ==
  IF outcome.kind # "response" THEN get_fallback_response(message, language)
  ELSE IF outcome.status # 200 THEN get_fallback_response(message, language)
  ELSE IF outcome.body \in { NotJson, NullField }
  THEN get_fallback_response(message, language)
  ELSE LET generated_response == strip_prefixes(strip(outcome.body))
       IN  IF strip(outcome.body) # << >> /\ Len(generated_response) > 10
           THEN generated_response
           ELSE get_fallback_response(message, language)

\* get_ai_translation(prompt) when requests.post ends as outcome.
get_ai_translation(outcome) ==
  IF outcome.kind # "response" THEN None
  ELSE IF outcome.status # 200 THEN None
  ELSE IF outcome.body \in { NotJson, NullField } THEN None
  ELSE LET translation == strip(outcome.body)
       IN  IF /\ translation # << >>
              /\ ~ startswith(translation, <<"I"," ","c","a","n","n","o","t">>)
              /\ ~ startswith(translation, <<"S","o","r","r","y">>)
           THEN translation
           ELSE None

-----------------------------------------------------------------------------
(* The chat orchestration: translation requests and contextual translation *)

\* s.split(sep, 1): cut at the leftmost occurrence only
split1(s, sep) ==
  LET hits == { i \in 1..(Len(s) - Len(sep) + 1) :
                  \A j \in 1..Len(sep) : s[i + j - 1] = sep[j] }
  IN  IF hits = {} THEN << s >>
      ELSE LET i == CHOOSE h \in hits : \A g \in hits : h <= g
           IN  << SubSeq(s, 1, i - 1), SubSeq(s, i + Len(sep), Len(s)) >>

\* s.replace(old, new) for a non-empty old
replace(s, old, new) == join(split(s, old), new)

translation_help ==
  <<"I"," ","c","a","n"," ","h","e","l","p"," ","y","o","u"," ","t","r","a","n","s","l","a","t","e"," ","t","e","x","t","!"," ","P","l","e","a","s","e"," ","s","p","e","c","i","f","y"," ","w","h","a","t"," ","y","o","u","'","d"," ","l","i","k","e"," ","t","o"," ","t","r","a","n","s","l","a","t","e"," ","a","n","d"," ","t","o"," ","w","h","i","c","h"," ","l","a","n","g","u","a","g","e","."," ","F","o","r"," ","e","x","a","m","p","l","e",":"," ","'","T","r","a","n","s","l","a","t","e"," ","h","e","l","l","o"," ","t","o"," ","S","p","a","n","i","s","h","'"," ","o","r"," ","'","C","o","n","v","e","r","t"," ","t","h","i","s"," ","t","e","x","t"," ","t","o"," ","F","r","e","n","c","h",":"," ","[","y","o","u","r"," ","t","e","x","t","]","'">>

words_to_remove ==
  << <<"s","p","a","n","i","s","h">>, <<"f","r","e","n","c","h">>, <<"g","e","r","m","a","n">>, <<"h","i","n","d","i">>, <<"a","r","a","b","i","c">>, <<"c","h","i","n","e","s","e">>, <<"j","a","p","a","n","e","s","e">>,
     <<"k","o","r","e","a","n">>, <<"p","o","r","t","u","g","u","e","s","e">>, <<"r","u","s","s","i","a","n">>, <<"i","t","a","l","i","a","n">>, <<"e","n","g","l","i","s","h">> >>

\* for word in words_to_remove[i..]: text = text.replace(word, '').strip()
RECURSIVE remove_words(_, _)
remove_words(text_to_translate, i) ==
  IF i > Len(words_to_remove) THEN text_to_translate
  ELSE Bind(strip(replace(text_to_translate, words_to_remove[i], << >>)),
            LAMBDA cleaned : remove_words(cleaned, i + 1))

\* The loop over supported_languages.items(): the first language whose
\* lowercased name or whose code occurs in the message, else the default.
mentioned_language(message_lower, target) ==
  LET hits == { n \in 1..Len(supported_languages) :
                  \/ contains(message_lower, lower(supported_languages[n][2]))
                  \/ contains(message_lower, supported_languages[n][1]) }
  IN  IF hits = {} THEN target
      ELSE supported_languages[CHOOSE n \in hits : \A h \in hits : n <= h][1]

\* handle_translation_request(message, target_language), with the detector
\* outcome det, the failing engine calls fails and k engine calls made before.
handle_translation_request(message, target, det, fails, k) ==
  LET message_lower == lower(message)
      parts == split1(message, <<"t","r","a","n","s","l","a","t","e">>)
      help  == [ ret |-> translation_help, detects |-> 0, engine |-> << >> ]
  IN  IF ~ contains(message_lower, <<"t","r","a","n","s","l","a","t","e">>) \/ Len(parts) <= 1 THEN help
      ELSE Bind(remove_words(
                  replace(replace(strip(parts[2]), <<" ","t","o"," ">>, <<" ">>), <<" ","i","n","t","o"," ">>, <<" ">>), 1),
                LAMBDA text_to_translate :
                  IF text_to_translate = << >> THEN help
                  ELSE Bind(translate_text(
                              text_to_translate,
                              mentioned_language(message_lower, target),
                              None, det, fails, k),
                            LAMBDA r :
                              [ ret     |-> <<"T","r","a","n","s","l","a","t","i","o","n",":"," ">> \o r.ret,
                                detects |-> r.detects,
                                engine  |-> r.engine ]))

\* The condition under which enhanced_translate_with_context asks the LLM.
needs_ai_translation(complexity) ==
  \/ complexity.has_idioms
  \/ complexity.formality_level # "neutral"
  \/ complexity.has_cultural_references

\* enhanced_translate_with_context asking the LLM for every text.
enhanced_translate_always_ai(t, target, source, ai_outcome, det, fails, k) ==
  Bind(get_ai_translation(ai_outcome),
       LAMBDA ai_translation :
         IF ai_translation # None /\ strip(ai_translation) # << >>
         THEN [ ret |-> ai_translation, detects |-> 0, engine |-> << >>, llm |-> << "get_ai_translation" >> ]
         ELSE Bind(translate_text(t, target, source, det, fails, k),
                   LAMBDA r : [ ret |-> r.ret, detects |-> r.detects, engine |-> r.engine,
                                llm |-> << "get_ai_translation" >> ]))

\* enhanced_translate_with_context(text, target_language, source_language)
\* when the LLM call ends as ai_outcome and the detector does det.
\* Returns the value, the engine calls and the LLM calls made.
enhanced_translate_with_context(t, target, source, ai_outcome, det, fails, k) ==
  Bind(detect_linguistic_complexity(t),
       LAMBDA complexity :
         Bind(IF needs_ai_translation(complexity)
              THEN get_ai_translation(ai_outcome) ELSE None,
              LAMBDA ai_translation :
                LET llm == IF needs_ai_translation(complexity)
                           THEN << "get_ai_translation" >> ELSE << >>
                IN  IF ai_translation # None /\ strip(ai_translation) # << >>
                    THEN [ ret |-> ai_translation, detects |-> 0, engine |-> << >>, llm |-> llm ]
                    ELSE Bind(translate_text(t, target, source, det, fails, k),
                              LAMBDA r : [ ret |-> r.ret, detects |-> r.detects, engine |-> r.engine,
                                           llm |-> llm ])))
-----------------------------------------------------------------------------
(* The endpoint handlers                                                   *)

\* What a handler returns: the HTTP status and the JSON body, or an
\* exception that leaves the handler (raised).
Respond(status_code, body) == [ status |-> status_code, raised |-> FALSE, body |-> body ]

Escapes(exception) == [ status |-> 0, raised |-> TRUE, body |-> [ exception |-> exception ] ]

\* The external calls a handler made, in order.
no_calls == [ detects |-> 0, engine |-> << >>, llm |-> << >> ]

chat_translation_keywords ==
  << <<"t","r","a","n","s","l","a","t","e">>, <<"t","r","a","n","s","l","a","t","i","o","n">>, <<"c","o","n","v","e","r","t"," ","t","o">>, <<"i","n"," ","s","p","a","n","i","s","h">>, <<"i","n"," ","f","r","e","n","c","h">>,
     <<"i","n"," ","g","e","r","m","a","n">>, <<"i","n"," ","h","i","n","d","i">>, <<"i","n"," ","a","r","a","b","i","c">>, <<"i","n"," ","c","h","i","n","e","s","e">>, <<"i","n"," ","j","a","p","a","n","e","s","e">>,
     <<"i","n"," ","k","o","r","e","a","n">>, <<"i","n"," ","p","o","r","t","u","g","u","e","s","e">>, <<"i","n"," ","r","u","s","s","i","a","n">>, <<"i","n"," ","i","t","a","l","i","a","n">>, <<"i","n"," ","t","e","l","u","g","u">>,
     <<"i","n"," ","t","a","m","i","l">>, <<"i","n"," ","m","a","r","a","t","h","i">> >>

\* is_translation_request of chat()
is_translation_request(message_for_processing) ==
  any_in(chat_translation_keywords, lower(message_for_processing))

\* The first step of chat(): message_for_processing
chat_normalize(req, actual_input_lang, env) ==
  IF actual_input_lang # <<"e","n">>
  THEN translate_text(req.message, <<"e","n">>, actual_input_lang, env.detect, env.fails, 0)
  ELSE [ ret |-> req.message, detects |-> 0, engine |-> << >> ]

\* The second step of chat(): the reply of the translation-request handler
\* or of the LLM adapter, with the calls made.
chat_reply(message_for_processing, output_language, env, k) ==
  IF is_translation_request(message_for_processing)
  THEN Bind(handle_translation_request(message_for_processing, output_language,
                                       env.detect2, env.fails, k),
            LAMBDA r : [ ret |-> r.ret, detects |-> r.detects, engine |-> r.engine,
                         llm |-> << >> ])
  ELSE Bind(generate_response_with_ollama(message_for_processing, output_language,
                                          env.generate),
            LAMBDA r : [ ret |-> r, detects |-> 0, engine |-> << >>,
                         llm |-> << "generate_response_with_ollama" >> ])

\* output_language != 'en' and output_language != 'auto' and not is_translation_request
retranslates(output_language, message_for_processing) ==
  /\ output_language # <<"e","n">>
  /\ output_language # <<"a","u","t","o">>
  /\ ~ is_translation_request(message_for_processing)

\* chat() re-translating the reply whatever the output language is.
chat_finish_always(reply, output_language, message_for_processing, env, k) ==
  Bind(enhanced_translate_with_context(reply, output_language, <<"e","n">>, env.assist,
                                       env.detect, env.fails, k),
       LAMBDA r : [ final_response |-> r.ret, translation |-> reply,
                    detects |-> r.detects, engine |-> r.engine, llm |-> r.llm ])

\* The third step of chat(): final_response and translation.  The except
\* branches around enhanced_translate_with_context are never taken: that
\* function catches its own exceptions.
chat_finish(reply, output_language, message_for_processing, env, k) ==
  IF retranslates(output_language, message_for_processing)
  THEN Bind(enhanced_translate_with_context(reply, output_language, <<"e","n">>, env.assist,
                                            env.detect, env.fails, k),
            LAMBDA r : [ final_response |-> r.ret, translation |-> reply,
                         detects |-> r.detects, engine |-> r.engine, llm |-> r.llm ])
  ELSE [ final_response |-> reply, translation |-> None,
         detects |-> 0, engine |-> << >>, llm |-> << >> ]

\* chat() for a JSON object body, after the message was found non-empty.
chat_process(req, env) ==
  LET detected_lang     == detect_language(req.message, env.detect)
      actual_input_lang == IF req.input_language = <<"a","u","t","o">>
                           THEN detected_lang ELSE req.input_language
  IN  Bind(chat_normalize(req, actual_input_lang, env),
        LAMBDA n :
          Bind(chat_reply(n.ret, req.output_language, env, Len(n.engine)),
            LAMBDA r :
              Bind(chat_finish(r.ret, req.output_language, n.ret, env,
                               Len(n.engine) + Len(r.engine)),
                LAMBDA f :
                  [ response |->
                      Respond(200,
                        [ response          |-> f.final_response,
                          detected_language |-> detected_lang,
                          input_language    |-> actual_input_lang,
                          output_language   |-> req.output_language,
                          translation       |->
                            IF req.output_language # <<"e","n">> /\ req.output_language # <<"a","u","t","o">>
                            THEN f.translation ELSE None,
                          message_processed |-> n.ret ]),
                    calls |->
                      [ detects |-> 1 + n.detects + r.detects + f.detects,
                        engine  |-> n.engine \o r.engine \o f.engine,
                        llm     |-> r.llm \o f.llm ] ])))

\* chat(): POST /api/chat.  When the body is not a JSON object, data.get
\* raises inside the try, and the except clause reads input_language and
\* output_language, which were never assigned: that second exception
\* leaves the handler.
chat(req, env) ==
  IF ~ req.json THEN [ response |-> Escapes("UnboundLocalError"), calls |-> no_calls ]
  ELSE IF req.message = << >>
  THEN [ response |-> Respond(400, [ error |-> <<"M","e","s","s","a","g","e"," ","i","s"," ","r","e","q","u","i","r","e","d">> ]),
         calls |-> no_calls ]
  ELSE chat_process(req, env)

\* translate(): POST /api/translate.  The detector is asked a second time
\* for the response when no source language was given.
translate(req, env) ==
  IF ~ req.json
  THEN [ response |-> Respond(500, [ error |-> <<"T","r","a","n","s","l","a","t","i","o","n"," ","f","a","i","l","e","d">> ]), calls |-> no_calls ]
  ELSE IF req.text = << >>
  THEN [ response |-> Respond(400, [ error |-> <<"T","e","x","t"," ","i","s"," ","r","e","q","u","i","r","e","d">> ]), calls |-> no_calls ]
  ELSE Bind(translate_text(req.text, req.target_language, req.source_language,
                           env.detect, env.fails, 0),
         LAMBDA r :
           [ response |->
               Respond(200,
                 [ translated_text |-> r.ret,
                   source_language |->
                     IF req.source_language = None \/ req.source_language = << >>
                     THEN detect_language(req.text, env.detect2)
                     ELSE req.source_language,
                   target_language |-> req.target_language ]),
             calls |->
               [ detects |-> r.detects
                               + (IF req.source_language = None \/ req.source_language = << >>
                                  THEN 1 ELSE 0),
                 engine  |-> r.engine,
                 llm     |-> << >> ] ])

\* list(chatbot.supported_languages.keys())
supported_language_keys ==
  [ n \in 1..Len(supported_languages) |-> supported_languages[n][1] ]

\* health() reporting the backend connected whenever it answers.
health_any_answer(probe) ==
  Respond(200,
    [ status              |-> <<"h","e","a","l","t","h","y">>,
      ollama_connected    |-> (probe.kind = "response"),
      supported_languages |-> supported_language_keys ])

\* health(): GET /api/health, when the version probe ends as probe.
health(probe) ==
  Respond(200,
    [ status              |-> <<"h","e","a","l","t","h","y">>,
      ollama_connected    |-> (probe.kind = "response" /\ probe.status = 200),
      supported_languages |-> supported_language_keys ])

\* os.path.splitext(filename)[1] for a name without directory part: from the
\* last dot on, unless only dots precede it.
splitext_ext(filename) ==
  LET dots == { i \in 1..Len(filename) : filename[i] = "." }
  IN  IF dots = {} THEN << >>
      ELSE LET p == CHOOSE i \in dots : \A j \in dots : j <= i
           IN  IF \E j \in 1..(p - 1) : filename[j] # "."
               THEN SubSeq(filename, p, Len(filename)) ELSE << >>

text_extensions ==
  { <<".","t","x","t">>, <<".","m","d">>, <<".","p","y">>, <<".","j","s">>, <<".","h","t","m","l">>, <<".","c","s","s">>, <<".","j","s","o","n">>, <<".","x","m","l">>, <<".","c","s","v">> }

pdf_placeholder == <<"P","D","F"," ","f","i","l","e"," ","d","e","t","e","c","t","e","d","."," ","P","l","e","a","s","e"," ","c","o","n","v","e","r","t"," ","t","o"," ","t","e","x","t"," ","f","o","r","m","a","t"," ","f","o","r"," ","t","r","a","n","s","l","a","t","i","o","n",".">>

word_placeholder == <<"W","o","r","d"," ","d","o","c","u","m","e","n","t"," ","d","e","t","e","c","t","e","d","."," ","P","l","e","a","s","e"," ","s","a","v","e"," ","a","s"," ","t","e","x","t"," ","f","i","l","e"," ","f","o","r"," ","t","r","a","n","s","l","a","t","i","o","n",".">>

error_reading_file == <<"E","r","r","o","r"," ","r","e","a","d","i","n","g"," ","f","i","l","e",":"," ">>

\* extract_text_from_file(file_content, filename).  file_content.decoding
\* tells how the bytes decode: "utf-8" at once, "fallback" through chardet
\* or latin-1, "error" when chardet.detect raises; file_content.text is the
\* text the decoding gives.
extract_text_from_file(file_content, filename) ==
  LET file_extension == lower(splitext_ext(filename))
  IN  IF file_extension \in text_extensions
      THEN IF file_content.decoding = "error"
           THEN error_reading_file \o <<"c","h","a","r","d","e","t">>
           ELSE file_content.text
      ELSE IF file_extension = <<".","p","d","f">> THEN pdf_placeholder
      ELSE IF file_extension \in { <<".","d","o","c">>, <<".","d","o","c","x">> } THEN word_placeholder
      ELSE file_content.text

\* 500 in the code (app.py line 980); the model keeps the comparison and the
\* slice and scales the length so that texts on both sides of it are small.
preview_length == 4

\* text_content[:500] + '...' if len(text_content) > 500 else text_content
preview(text_content) ==
  IF Len(text_content) > preview_length
  THEN SubSeq(text_content, 1, preview_length) \o <<".",".",".">>
  ELSE text_content

\* The test translate_file() makes on the extracted text.
looks_like_error(text_content) ==
  \/ startswith(text_content, <<"E","r","r","o","r">>)
  \/ startswith(text_content, <<"U","n","s","u","p","p","o","r","t","e","d">>)
  \/ contains(text_content, <<"d","e","t","e","c","t","e","d">>)

\* translate_file() after the text was extracted and accepted.
translate_file_accepted(req, text_content, env) ==
  LET detected_lang == detect_language(text_content, env.detect)
      actual_source_lang ==
        IF req.source_language # None /\ req.source_language # << >>
           /\ req.source_language # <<"a","u","t","o">>
        THEN req.source_language ELSE detected_lang
  IN  Bind(translate_file_content(text_content, req.target_language,
                                  actual_source_lang, env.detect2, env.fails),
        LAMBDA r :
          [ response |->
              Respond(200,
                [ success             |-> TRUE,
                  original_filename   |-> req.filename,
                  file_size           |-> req.file_content.size,
                  file_type           |-> lower(splitext_ext(req.filename)),
                  detected_language   |-> detected_lang,
                  source_language     |-> actual_source_lang,
                  target_language     |-> req.target_language,
                  original_content    |-> preview(text_content),
                  translated_content  |-> r.ret,
                  char_count          |-> Len(text_content),
                  translated_char_count |-> Len(r.ret) ]),
            calls |-> [ detects |-> 1 + r.detects, engine |-> r.engine, llm |-> << >> ] ])

\* translate_file(): POST /api/translate-file
translate_file(req, env) ==
  IF ~ req.has_file
  THEN [ response |-> Respond(400, [ error |-> <<"N","o"," ","f","i","l","e"," ","p","r","o","v","i","d","e","d">> ]), calls |-> no_calls ]
  ELSE IF req.filename = << >>
  THEN [ response |-> Respond(400, [ error |-> <<"N","o"," ","f","i","l","e"," ","s","e","l","e","c","t","e","d">> ]), calls |-> no_calls ]
  ELSE Bind(extract_text_from_file(req.file_content, req.filename),
         LAMBDA text_content :
           IF looks_like_error(text_content)
           THEN [ response |-> Respond(400, [ error |-> text_content ]), calls |-> no_calls ]
           ELSE translate_file_accepted(req, text_content, env))

-----------------------------------------------------------------------------
(* Choosing the LLM model at start-up                                      *)

\* The 'models' list of a /api/tags answer is a sequence of entries; an
\* entry is a JSON object with or without the 'name' key.
Named(name) == [ named |-> TRUE, name |-> name ]

Unnamed == [ named |-> FALSE, name |-> << >> ]

\* The body of the answer, by what models_response.json() makes of it: text
\* that is not JSON, a JSON array, an object without the 'models' key, an
\* object whose 'models' is null, or an object with a 'models' list.
TagsBody(shape, models) == [ shape |-> shape, models |-> models ]

\* How requests.get ends: an HTTP response or an exception of the request.
TagsResponse(status_code, body) ==
  [ kind |-> "response", status |-> status_code, body |-> body ]

TagsException(kind) ==
  [ kind |-> kind, status |-> 0, body |-> TagsBody("none", << >>) ]

preferred_models ==
  << <<"l","l","a","m","a","3",".","1",":","7","0","b">>, <<"l","l","a","m","a","3",".","1",":","8","b">>, <<"l","l","a","m","a","3",":","7","0","b">>, <<"l","l","a","m","a","3",":","8","b">>, <<"l","l","a","m","a","3",".","1">>,
     <<"l","l","a","m","a","3">>, <<"m","i","s","t","r","a","l",":","7","b">>, <<"m","i","s","t","r","a","l">>, <<"p","h","i","3",":","1","4","b">>, <<"p","h","i","3",":","7","b">>, <<"p","h","i",":","l","a","t","e","s","t">>,
     <<"p","h","i">> >>

\* The loop over preferred_models replaced by a loop over the reported names.
get_best_available_model_backend_order(outcome) ==
  IF outcome.kind # "response" THEN <<"p","h","i">>
  ELSE IF outcome.status # 200 THEN <<"p","h","i">>
  ELSE IF outcome.body.shape \notin { "models", "no models key" } THEN <<"p","h","i">>
  ELSE LET models == outcome.body.models
       IN  IF \E i \in 1..Len(models) : ~models[i].named THEN <<"p","h","i">>
           ELSE LET hits == { i \in 1..Len(models) :
                                \E p \in 1..Len(preferred_models) :
                                   preferred_models[p] = models[i].name }
                IN  IF hits = {} THEN <<"p","h","i">>
                    ELSE models[CHOOSE i \in hits : \A j \in hits : i <= j].name

\* get_best_available_model() when requests.get ends as outcome.  An
\* exception of the request, of json(), of .get on a value that is no
\* object, of iterating a null list or of model['name'] is caught and
\* answered with "phi"; a missing 'models' key reads as the empty list.
get_best_available_model(outcome) ==
  IF outcome.kind # "response" THEN <<"p","h","i">>
  ELSE IF outcome.status # 200 THEN <<"p","h","i">>
  ELSE IF outcome.body.shape \notin { "models", "no models key" } THEN <<"p","h","i">>
  ELSE LET models == outcome.body.models
       IN  IF \E i \in 1..Len(models) : ~models[i].named THEN <<"p","h","i">>
           ELSE LET model_names == { models[i].name : i \in 1..Len(models) }
                    hits == { p \in 1..Len(preferred_models) :
                                preferred_models[p] \in model_names }
                IN  IF hits = {} THEN <<"p","h","i">>
                    ELSE preferred_models[CHOOSE p \in hits : \A q \in hits : p <= q]
-----------------------------------------------------------------------------
(* Requests to the translation adapter                                     *)

\* The values of the variables of a component that serves no request.
TranslateIdle ==
  /\ text = << >>
  /\ target_language = None
  /\ source_language = None
  /\ detect_outcome = Raises
  /\ translator_fails = {}
  /\ result = None
  /\ detect_calls = 0
  /\ translate_calls = << >>
  /\ tt_calls = << >>

ClassifyIdle == user_message = << >> /\ intent = "none"

LlmIdle == user_language = None /\ llm_outcome = None

\* A request without a JSON body.
NoBody == [ json |-> FALSE, audio |-> << >>, language |-> << >> ]

SpeechIdle ==
  /\ WHISPER_AVAILABLE = FALSE
  /\ whisper_model = None
  /\ speech_request = NoBody
  /\ disk = {}
  /\ temp_file_path = None
  /\ created = {}
  /\ status = 0
  /\ served = 0

\* No profile has been computed.
NoProfile ==
  [ has_idioms |-> FALSE, formality_level |-> "none",
    has_cultural_references |-> FALSE, sentiment |-> "none",
    grammar_complexity |-> "none" ]

ComplexityIdle == profile = NoProfile

\* No request is being served and no response was returned.
NoRequest == [ endpoint |-> "none" ]

NoResponse == [ status |-> 0, raised |-> FALSE, body |-> [ none |-> TRUE ] ]

\* Collaborators that are never called.
Unused == [ kind |-> "none", status |-> 0, body |-> None ]

NoEnvironment ==
  [ detect |-> Raises, detect2 |-> Raises, fails |-> {},
    generate |-> Unused, assist |-> Unused, probe |-> Unused ]

ServerIdle ==
  /\ request = NoRequest
  /\ environment = NoEnvironment
  /\ response = NoResponse
  /\ calls = no_calls

\* Largest number of phrases in a text given to translate_text.
MaxPhrases == 2

\* Largest number of pieces in a text given to translate_file_content.
MaxPieces == 5

\* Phrases the texts of SpecTranslate are made of: idioms in several letter
\* cases, a cultural reference, and plain words.
Phrases ==
  { <<"B","r","e","a","k"," ","A"," ","L","e","g">>, <<"P","I","E","C","E"," ","O","F"," ","C","A","K","E">>, <<"d","i","w","a","l","i">>, <<"h","i">>, <<"x">> }

\* Pieces the texts of SpecFile are made of: letters, a cultural reference,
\* whitespace and paragraph breaks.
Pieces ==
  { <<"a">>, <<"y","e","n">>, <<" ">>, <<"\n">>, <<"\n","\n">> }

RECURSIVE PhraseTexts(_)
PhraseTexts(n) ==
  IF n = 0 THEN { << >> }
  ELSE LET shorter == PhraseTexts(n - 1)
       IN  shorter \cup Phrases
             \cup { t \o <<" ">> \o p : t \in shorter \ { << >> }, p \in Phrases }

RECURSIVE PieceTexts(_)
PieceTexts(n) ==
  IF n = 0 THEN { << >> }
  ELSE LET shorter == PieceTexts(n - 1)
       IN  shorter \cup { t \o p : t \in shorter, p \in Pieces }

LanguageCodes == { <<"e","n">>, <<"e","s">>, <<"h","i">> }

\* langdetect.detect: a supported code, an unsupported one, or an exception
DetectOutcomes == { <<"e","n">>, <<"e","s">>, <<"n","l">>, Raises }

InitTranslateText ==
  /\ pc = "ready"
  /\ op = "none"
  /\ text \in PhraseTexts(MaxPhrases)
  /\ target_language \in LanguageCodes
  /\ source_language \in LanguageCodes \cup { None }
  /\ detect_outcome \in DetectOutcomes
  /\ translator_fails \in SUBSET { 1 }
  /\ result = None
  /\ detect_calls = 0
  /\ translate_calls = << >>
  /\ tt_calls = << >>
  /\ ClassifyIdle /\ LlmIdle /\ SpeechIdle /\ ComplexityIdle /\ ServerIdle

InitTranslateFile ==
  /\ pc = "ready"
  /\ op = "none"
  /\ text \in PieceTexts(MaxPieces)
  /\ target_language = <<"e","s">>
  /\ source_language \in { <<"e","n">>, <<"e","s">>, None }
  /\ detect_outcome \in { <<"e","s">>, Raises }
  /\ (source_language # None => detect_outcome = Raises)  \* the detector is not asked
  /\ translator_fails \in SUBSET { 1 }
  /\ result = None
  /\ detect_calls = 0
  /\ translate_calls = << >>
  /\ tt_calls = << >>
  /\ ClassifyIdle /\ LlmIdle /\ SpeechIdle /\ ComplexityIdle /\ ServerIdle

TranslateText ==
  /\ pc = "ready"
  /\ \E r \in { translate_text(text, target_language, source_language,
                                detect_outcome, translator_fails, 0) } :
         /\ result' = r.ret
         /\ detect_calls' = r.detects
         /\ translate_calls' = r.engine
  /\ pc' = "done"
  /\ op' = "translate_text"
  /\ UNCHANGED << text, target_language, source_language, detect_outcome,
                  translator_fails, tt_calls >>
  /\ UNCHANGED << classifyVars, llmVars, speechVars, complexityVars, serverVars >>

TranslateFileContent ==
  /\ pc = "ready"
  /\ \E r \in { translate_file_content(text, target_language, source_language,
                                        detect_outcome, translator_fails) } :
         /\ result' = r.ret
         /\ detect_calls' = r.detects
         /\ translate_calls' = r.engine
         /\ tt_calls' = r.tt
  /\ pc' = "done"
  /\ op' = "translate_file_content"
  /\ UNCHANGED << text, target_language, source_language, detect_outcome,
                  translator_fails >>
  /\ UNCHANGED << classifyVars, llmVars, speechVars, complexityVars, serverVars >>

NextTranslate == TranslateText \/ TranslateFileContent

SpecTranslate == InitTranslateText /\ [][NextTranslate]_vars

SpecFile == InitTranslateFile /\ [][NextTranslate]_vars


-----------------------------------------------------------------------------
(* Requests to the query classifier                                        *)

\* Largest number of filler words appended to a classifier message.
MaxFillers == 5

\* Keywords of every classifier rule, in rule order; "good morning" is a
\* greeting keyword of two words, "?" triggers the last rule.
Vocabulary ==
  << <<"t","r","a","n","s","l","a","t","e">>, <<"e","q","u","a","l","i","t","y">>, <<"h","e","l","p">>, <<"h","i">>, <<"g","o","o","d"," ","m","o","r","n","i","n","g">>, <<"t","o","n","e">>,
     <<"p","h","y","s","i","c","s">>, <<"e","x","p","l","a","i","n">>, <<"?">> >>

RECURSIVE ItemsOf(_, _)
ItemsOf(chosen, i) ==
  IF i > Len(Vocabulary) THEN << >>
  ELSE (IF i \in chosen THEN << Vocabulary[i] >> ELSE << >>) \o ItemsOf(chosen, i + 1)

Fillers(k) == [ i \in 1..k |-> <<"x">> ]

ExampleMessages ==
  { <<"t","r","a","n","s","l","a","t","e"," ","h","e","l","l","o"," ","t","o"," ","s","p","a","n","i","s","h">>, <<"h","i">>,
    <<"w","h","a","t"," ","i","s"," ","t","h","e"," ","d","i","f","f","e","r","e","n","c","e"," ","b","e","t","w","e","e","n"," ","x"," ","a","n","d"," ","y","?">> }

\* Lowercase messages: the examples, and every selection of vocabulary
\* items followed by up to MaxFillers filler words, joined by single spaces.
ClassifierMessages ==
  ExampleMessages
    \cup { join(ItemsOf(chosen, 1) \o Fillers(k), <<" ">>) :
             chosen \in SUBSET (1..Len(Vocabulary)), k \in 0..MaxFillers }

InitClassify ==
  /\ pc = "ready"
  /\ op = "none"
  /\ user_message \in ClassifierMessages
  /\ intent = "none"
  /\ TranslateIdle /\ LlmIdle /\ SpeechIdle /\ ComplexityIdle /\ ServerIdle

ClassifyQuery ==
  /\ pc = "ready"
  /\ \E r \in { classify_query(user_message) } : intent' = r
  /\ pc' = "done"
  /\ op' = "classify_query"
  /\ UNCHANGED << user_message, translateVars, llmVars, speechVars, complexityVars,
                  serverVars >>

NextClassify == ClassifyQuery

SpecClassify == InitClassify /\ [][NextClassify]_vars

-----------------------------------------------------------------------------
(* Calls to the LLM adapter                                                *)

LLMMessages ==
  { <<"h","i">>, <<"t","r","a","n","s","l","a","t","e"," ","t","h","i","s">>, <<"h","e","l","p">>, <<"e","q","u","a","l","i","t","y">>, <<"w","h","y","?">>, <<"t","h","a","n","k","s">> }

LLMLanguages == { <<"e","n">>, <<"e","s">>, <<"f","r">>, <<"h","i">>, <<"d","e">> }

\* Texts the backend may put in the 'response' field of its JSON answer.
GeneratedTexts ==
  { <<"I"," ","c","a","n","n","o","t"," ","h","e","l","p"," ","w","i","t","h"," ","t","h","a","t">>, <<"S","o","r","r","y",","," ","I"," ","a","m"," ","u","n","a","b","l","e"," ","t","o"," ","d","o"," ","t","h","a","t",".">>,
    <<" "," ","I"," ","c","a","n","n","o","t"," ","h","e","l","p"," ","w","i","t","h"," ","t","h","a","t"," "," ">>,
    <<"A","s"," ","a","n"," ","A","I",","," ","I"," ","h","a","v","e"," ","l","i","m","i","t","s","."," ","T","h","e"," ","c","a","p","i","t","a","l"," ","i","s"," ","P","a","r","i","s",".">>,
    <<"A","s"," ","a","n"," ","A","I",","," ","I"," ","h","a","v","e"," ","l","i","m","i","t","s","."," ","A","s"," ","a"," ","r","u","l","e",","," ","P","a","r","i","s"," ","i","s"," ","b","u","s","y","."," ","I","t"," ","i","s"," ","t","h","e"," ","c","a","p","i","t","a","l",".">>,
    <<"A","s"," ","a","n"," ","A","I"," ","I"," ","h","a","v","e"," ","n","o"," ","o","p","i","n","i","o","n"," ","o","n"," ","t","h","a","t">>,
    <<"A","s"," ","a"," ","r","u","l","e",","," ","P","a","r","i","s"," ","i","s"," ","b","u","s","y","."," ","I","t"," ","i","s"," ","t","h","e"," ","c","a","p","i","t","a","l",".">>,
    <<"S","h","o","r","t">>, <<>>, <<"T","h","e"," ","c","a","p","i","t","a","l"," ","o","f"," ","F","r","a","n","c","e"," ","i","s"," ","P","a","r","i","s",".">>,
    <<"s","o","r","r","y"," ","a","b","o","u","t"," ","t","h","a","t",","," ","h","e","r","e"," ","i","t"," ","i","s">>, NotJson, NullField }

\* How requests.post ends: an HTTP response, or one of the exceptions of
\* the requests library.
LLMOutcomes ==
  { HttpResponse(200, g) : g \in GeneratedTexts }
    \cup { HttpResponse(s, <<"T","h","e"," ","c","a","p","i","t","a","l"," ","o","f"," ","F","r","a","n","c","e"," ","i","s"," ","P","a","r","i","s",".">>) : s \in { 404, 500 } }
    \cup { HttpException(k) : k \in { "ConnectionError", "Timeout", "RequestException" } }

InitLLM ==
  /\ pc = "ready"
  /\ op = "none"
  /\ user_message \in LLMMessages
  /\ intent = "none"
  /\ user_language \in LLMLanguages
  /\ llm_outcome \in LLMOutcomes
  /\ TranslateIdle /\ SpeechIdle /\ ComplexityIdle /\ ServerIdle

GenerateResponse ==
  /\ pc = "ready"
  /\ \E r \in { generate_response_with_ollama(user_message, user_language, llm_outcome) } :
         result' = r
  /\ pc' = "done"
  /\ op' = "generate_response_with_ollama"
  /\ UNCHANGED << text, target_language, source_language, detect_outcome,
                  translator_fails, detect_calls, translate_calls, tt_calls >>
  /\ UNCHANGED << classifyVars, llmVars, speechVars, complexityVars, serverVars >>

GetAiTranslation ==
  /\ pc = "ready"
  /\ \E r \in { get_ai_translation(llm_outcome) } : result' = r
  /\ pc' = "done"
  /\ op' = "get_ai_translation"
  /\ UNCHANGED << text, target_language, source_language, detect_outcome,
                  translator_fails, detect_calls, translate_calls, tt_calls >>
  /\ UNCHANGED << classifyVars, llmVars, speechVars, complexityVars, serverVars >>

NextLLM == GenerateResponse \/ GetAiTranslation

SpecLLM == InitLLM /\ [][NextLLM]_vars

-----------------------------------------------------------------------------
(* The speech-to-text handler                                              *)

\* Largest number of speech requests the server receives.
MaxRequests == 2

\* The 'audio' field of a request body.
InvalidBase64 == << "invalid base64" >>

ValidAudio == << "base64 audio" >>

\* Request bodies: no JSON body (get_json gives None), or a JSON object with
\* its 'audio' and 'language' fields.
SpeechRequests ==
  { NoBody }
    \cup { [ json |-> TRUE, audio |-> a, language |-> l ] :
             a \in { << >>, InvalidBase64, ValidAudio }, l \in { <<"e","n">>, <<"a","u","t","o">> } }

\* The name NamedTemporaryFile gives the file of the n-th request.
TempFile(n) == << "tmp", ToString(n), ".wav" >>

\* Module initialisation: the speech library may be missing, and when it is
\* present loading the model may fail and leave whisper_model None.
InitSpeech ==
  /\ pc = "idle"
  /\ op = "none"
  /\ WHISPER_AVAILABLE \in BOOLEAN
  /\ whisper_model \in { None, << "tiny" >> }
  /\ (~ WHISPER_AVAILABLE => whisper_model = None)
  /\ speech_request = NoBody
  /\ disk = {}
  /\ temp_file_path = None
  /\ created = {}
  /\ status = 0
  /\ served = 0
  /\ TranslateIdle /\ ClassifyIdle /\ LlmIdle /\ ComplexityIdle /\ ServerIdle

speechFixed ==
  << op, WHISPER_AVAILABLE, whisper_model, translateVars, classifyVars, llmVars,
     complexityVars, serverVars >>

\* The handler returns a response with the given status.
Return(code) ==
  /\ status' = code
  /\ pc' = "returned"

\* A POST /api/speech-to-text arrives.
SpeechRequest ==
  /\ pc \in { "idle", "returned" }
  /\ served < MaxRequests
  /\ served' = served + 1
  /\ speech_request' \in SpeechRequests
  /\ temp_file_path' = None
  /\ created' = {}
  /\ status' = 0
  /\ pc' = "handler"
  /\ UNCHANGED << disk, speechFixed >>

\* The speech library is missing: 400.
SpeechUnavailable ==
  /\ pc = "handler"
  /\ ~ WHISPER_AVAILABLE
  /\ Return(400)
  /\ UNCHANGED << speech_request, disk, temp_file_path, created, served, speechFixed >>

\* request.get_json() gave None, data.get raises, the outer except answers 500.
SpeechBadBody ==
  /\ pc = "handler"
  /\ WHISPER_AVAILABLE
  /\ ~ speech_request.json
  /\ Return(500)
  /\ UNCHANGED << speech_request, disk, temp_file_path, created, served, speechFixed >>

\* The 'audio' field is missing or empty: 400.
SpeechNoAudio ==
  /\ pc = "handler"
  /\ WHISPER_AVAILABLE
  /\ speech_request.json
  /\ speech_request.audio = << >>
  /\ Return(400)
  /\ UNCHANGED << speech_request, disk, temp_file_path, created, served, speechFixed >>

\* base64.b64decode raises, the outer except answers 500.
SpeechBadBase64 ==
  /\ pc = "handler"
  /\ WHISPER_AVAILABLE
  /\ speech_request.json
  /\ speech_request.audio = InvalidBase64
  /\ Return(500)
  /\ UNCHANGED << speech_request, disk, temp_file_path, created, served, speechFixed >>

\* tempfile.NamedTemporaryFile(delete=False) creates the file of this request.
SpeechCreateTempFile ==
  /\ pc = "handler"
  /\ WHISPER_AVAILABLE
  /\ speech_request.json
  /\ speech_request.audio = ValidAudio
  /\ disk' = disk \cup { TempFile(served) }
  /\ created' = created \cup { TempFile(served) }
  /\ pc' = "with"
  /\ UNCHANGED << speech_request, temp_file_path, status, served, speechFixed >>

\* tempfile.NamedTemporaryFile raises (no temporary directory), 500.
SpeechCreateFails ==
  /\ pc = "handler"
  /\ WHISPER_AVAILABLE
  /\ speech_request.json
  /\ speech_request.audio = ValidAudio
  /\ Return(500)
  /\ UNCHANGED << speech_request, disk, temp_file_path, created, served, speechFixed >>

\* temp_file.write succeeds, temp_file_path is bound, the with block closes
\* the file and the try block is entered.
SpeechWriteAudio ==
  /\ pc = "with"
  /\ temp_file_path' = TempFile(served)
  /\ pc' = "try"
  /\ UNCHANGED << speech_request, disk, created, status, served, speechFixed >>

\* temp_file.write raises (disk full): the with block closes the file, which
\* delete=False keeps, and the outer except answers 500; the try/finally
\* that unlinks the file has not been entered.
SpeechWriteFails ==
  /\ pc = "with"
  /\ Return(500)
  /\ UNCHANGED << speech_request, disk, temp_file_path, created, served, speechFixed >>

\* whisper_model.transcribe returns a result.
SpeechTranscribe ==
  /\ pc = "try"
  /\ whisper_model # None
  /\ pc' = "respond"
  /\ UNCHANGED << speech_request, disk, temp_file_path, created, status, served, speechFixed >>

\* whisper_model.transcribe raises, or whisper_model is None: the finally
\* clause runs with the exception pending.
SpeechTranscribeFails ==
  /\ pc = "try"
  /\ status' = 500
  /\ pc' = "finally"
  /\ UNCHANGED << speech_request, disk, temp_file_path, created, served, speechFixed >>

\* The response is built from the result and returned through finally.
SpeechBuildResponse ==
  /\ pc = "respond"
  /\ status' = 200
  /\ pc' = "finally"
  /\ UNCHANGED << speech_request, disk, temp_file_path, created, served, speechFixed >>

\* Building the response raises (the result has no 'text'): the finally
\* clause runs with the exception pending.
SpeechBuildFails ==
  /\ pc = "respond"
  /\ status' = 500
  /\ pc' = "finally"
  /\ UNCHANGED << speech_request, disk, temp_file_path, created, served, speechFixed >>

\* finally: unlink temp_file_path when it exists, then the handler returns
\* the pending response or the 500 of the outer except.
SpeechFinally ==
  /\ pc = "finally"
  /\ disk' = disk \ { temp_file_path }
  /\ pc' = "returned"
  /\ UNCHANGED << speech_request, temp_file_path, created, status, served, speechFixed >>

NextSpeech ==
  \/ SpeechRequest
  \/ SpeechUnavailable
  \/ SpeechBadBody
  \/ SpeechNoAudio
  \/ SpeechBadBase64
  \/ SpeechCreateTempFile
  \/ SpeechCreateFails
  \/ SpeechWriteAudio
  \/ SpeechWriteFails
  \/ SpeechTranscribe
  \/ SpeechTranscribeFails
  \/ SpeechBuildResponse
  \/ SpeechBuildFails
  \/ SpeechFinally

SpecSpeech == InitSpeech /\ [][NextSpeech]_vars

-----------------------------------------------------------------------------
(* Calls to the linguistic analyzer                                        *)

\* Words the analyzed texts are made of: formal and informal markers in
\* several letter cases, positive and negative words, an idiom, a cultural
\* reference, a complex-structure marker, a plain word and a full stop.
AnalyzerWords ==
  << <<"P","l","e","a","s","e">>, <<"k","i","n","d","l","y">>, <<"h","e","y">>, <<"g","o","n","n","a">>, <<"l","o","v","e">>, <<"H","A","P","P","Y">>, <<"a","w","f","u","l">>,
     <<"p","i","e","c","e"," ","o","f"," ","c","a","k","e">>, <<"d","i","w","a","l","i">>, <<"w","h","i","c","h">>, <<"x",".">> >>

RECURSIVE WordsOf(_, _)
WordsOf(chosen, i) ==
  IF i > Len(AnalyzerWords) THEN << >>
  ELSE (IF i \in chosen THEN << AnalyzerWords[i] >> ELSE << >>) \o WordsOf(chosen, i + 1)

\* Every selection of the words joined by single spaces; the empty
\* selection is the empty string.
AnalyzerTexts ==
  { join(WordsOf(chosen, 1), <<" ">>) : chosen \in SUBSET (1..Len(AnalyzerWords)) }

InitComplexity ==
  /\ pc = "ready"
  /\ op = "none"
  /\ text \in AnalyzerTexts
  /\ target_language = None
  /\ source_language = None
  /\ detect_outcome = Raises
  /\ translator_fails = {}
  /\ result = None
  /\ detect_calls = 0
  /\ translate_calls = << >>
  /\ tt_calls = << >>
  /\ ClassifyIdle /\ LlmIdle /\ SpeechIdle /\ ComplexityIdle /\ ServerIdle

DetectLinguisticComplexity ==
  /\ pc = "ready"
  /\ \E r \in { detect_linguistic_complexity(text) } : profile' = r
  /\ pc' = "done"
  /\ op' = "detect_linguistic_complexity"
  /\ UNCHANGED << translateVars, classifyVars, llmVars, speechVars, serverVars >>

NextComplexity == DetectLinguisticComplexity

SpecComplexity == InitComplexity /\ [][NextComplexity]_vars

-----------------------------------------------------------------------------
(* Requests to the endpoints                                               *)

ChatMessages ==
  { <<>>, <<"h","i">>, <<"t","r","a","n","s","l","a","t","e"," ","h","e","l","l","o"," ","t","o"," ","s","p","a","n","i","s","h">>, <<"T","r","a","n","s","l","a","t","e"," ","h","e","l","l","o"," ","t","o"," ","S","p","a","n","i","s","h">>,
    <<"h","o","w"," ","t","o"," ","s","a","y"," ","h","e","l","l","o">>, <<"w","e","a","t","h","e","r"," ","i","n"," ","s","p","a","n","i","s","h">>, <<"p","l","e","a","s","e"," ","e","x","p","l","a","i","n"," ","d","i","w","a","l","i">>,
    <<"w","h","a","t"," ","i","s"," ","p","h","y","s","i","c","s","?">> }

ChatRequests ==
  { [ endpoint |-> "chat", json |-> FALSE, message |-> << >>,
      input_language |-> <<"a","u","t","o">>, output_language |-> <<"e","n">> ] }
    \cup { [ endpoint |-> "chat", json |-> TRUE, message |-> msg,
             input_language |-> i, output_language |-> o ] :
             msg \in ChatMessages, i \in { <<"a","u","t","o">>, <<"e","n">>, <<"e","s">> },
             o \in { <<"e","n">>, <<"a","u","t","o">>, <<"e","s">>, <<"n","l">> } }

\* Answers of the LLM backend to the generation call of chat().
ChatGenerateOutcomes ==
  { HttpResponse(200, <<"T","h","e"," ","c","a","p","i","t","a","l"," ","o","f"," ","F","r","a","n","c","e"," ","i","s"," ","P","a","r","i","s",".">>),
    HttpResponse(200, <<"P","l","e","a","s","e"," ","k","i","n","d","l","y"," ","w","a","i","t",","," ","s","i","r",".">>),
    HttpResponse(200, <<"I"," ","c","a","n","n","o","t"," ","h","e","l","p"," ","w","i","t","h"," ","t","h","a","t">>),
    HttpException("Timeout") }

\* Answers of the LLM backend to the translation call of chat().
ChatAssistOutcomes ==
  { HttpResponse(200, <<"P","o","r"," ","f","a","v","o","r",","," ","e","s","p","e","r","e",".">>),
    HttpResponse(200, <<"S","o","r","r","y",","," ","I"," ","c","a","n","n","o","t"," ","t","r","a","n","s","l","a","t","e",".">>),
    HttpException("ConnectionError") }

InitChat ==
  /\ request \in ChatRequests
  /\ environment \in
       { [ detect |-> d, detect2 |-> Raises, fails |-> f, generate |-> g,
           assist |-> a, probe |-> Unused ] :
           d \in { <<"e","n">>, <<"e","s">>, Raises }, f \in { {}, { 1 }, { 2 } },
           g \in ChatGenerateOutcomes, a \in ChatAssistOutcomes }

TranslateRequests ==
  { [ endpoint |-> "translate", json |-> FALSE, text |-> << >>,
      target_language |-> <<"e","n">>, source_language |-> None ] }
    \cup { [ endpoint |-> "translate", json |-> TRUE, text |-> t,
             target_language |-> target, source_language |-> source ] :
             t \in { <<>>, <<"h","e","l","l","o">>, <<"b","r","e","a","k"," ","a"," ","l","e","g">> },
             target \in { <<"e","n">>, <<"e","s">>, <<"n","l">>, <<"x","x">> },
             source \in { None, <<>>, <<"e","n">>, <<"e","s">> } }

InitTranslateEndpoint ==
  /\ request \in TranslateRequests
  /\ environment \in
       { [ detect |-> d, detect2 |-> d2, fails |-> f, generate |-> Unused,
           assist |-> Unused, probe |-> Unused ] :
           d \in { <<"e","n">>, <<"e","s">>, Raises }, d2 \in { <<"e","n">>, <<"e","s">> },
           f \in { {}, { 1 } } }

\* Largest number of characters of an uploaded text, beyond the fixed ones.
MaxFileChars == 6

FileNames == { <<>>, <<"a",".","t","x","t">>, <<"a",".","M","D">>, <<"a",".","p","d","f">>, <<"a",".","d","o","c","x">>, <<"a",".","b","i","n">>, <<"a">> }

FileTexts ==
  { [ i \in 1..n |-> "a" ] : n \in 0..MaxFileChars }
    \cup { <<"E","r","r","o","r"," ","l","o","g">>, <<"b","u","g"," ","d","e","t","e","c","t","e","d">>, <<"U","n","s","u","p","p","o","r","t","e","d">>, <<"a","\n","\n","b"," ","c">> }

FileContents ==
  { [ decoding |-> d, text |-> t, size |-> Len(t) ] :
      d \in { "utf-8", "fallback" }, t \in FileTexts }
    \cup { [ decoding |-> "error", text |-> << >>, size |-> 1 ] }

FileRequests ==
  { [ endpoint |-> "translate-file", has_file |-> FALSE, filename |-> << >>,
      file_content |-> [ decoding |-> "utf-8", text |-> << >>, size |-> 0 ],
      target_language |-> <<"e","n">>, source_language |-> None ] }
    \cup { [ endpoint |-> "translate-file", has_file |-> TRUE, filename |-> name,
             file_content |-> content, target_language |-> <<"e","s">>,
             source_language |-> source ] :
             name \in FileNames, content \in FileContents,
             source \in { None, <<"a","u","t","o">>, <<"e","n">> } }

InitTranslateFileEndpoint ==
  /\ request \in FileRequests
  /\ environment \in
       { [ detect |-> d, detect2 |-> Raises, fails |-> f, generate |-> Unused,
           assist |-> Unused, probe |-> Unused ] :
           d \in { <<"e","n">>, Raises }, f \in { {}, { 1 } } }

HealthRequests == { [ endpoint |-> "health" ] }

ProbeOutcomes ==
  { HttpResponse(s, None) : s \in { 200, 404, 500 } }
    \cup { HttpException(k) : k \in { "ConnectionError", "Timeout" } }

InitHealth ==
  /\ request \in HealthRequests
  /\ environment \in
       { [ detect |-> Raises, detect2 |-> Raises, fails |-> {}, generate |-> Unused,
           assist |-> Unused, probe |-> p ] : p \in ProbeOutcomes }

InitServer ==
  /\ pc = "ready"
  /\ op = "none"
  /\ response = NoResponse
  /\ calls = no_calls
  /\ (InitChat \/ InitTranslateEndpoint \/ InitTranslateFileEndpoint \/ InitHealth)
  /\ TranslateIdle /\ ClassifyIdle /\ LlmIdle /\ SpeechIdle /\ ComplexityIdle

serverFixed ==
  << request, environment, translateVars, classifyVars, llmVars, speechVars,
     complexityVars >>

Chat ==
  /\ pc = "ready"
  /\ request.endpoint = "chat"
  /\ \E r \in { chat(request, environment) } :
         response' = r.response /\ calls' = r.calls
  /\ pc' = "done"
  /\ op' = "chat"
  /\ UNCHANGED serverFixed

Translate ==
  /\ pc = "ready"
  /\ request.endpoint = "translate"
  /\ \E r \in { translate(request, environment) } :
         response' = r.response /\ calls' = r.calls
  /\ pc' = "done"
  /\ op' = "translate"
  /\ UNCHANGED serverFixed

TranslateFile ==
  /\ pc = "ready"
  /\ request.endpoint = "translate-file"
  /\ \E r \in { translate_file(request, environment) } :
         response' = r.response /\ calls' = r.calls
  /\ pc' = "done"
  /\ op' = "translate_file"
  /\ UNCHANGED serverFixed

Health ==
  /\ pc = "ready"
  /\ request.endpoint = "health"
  /\ \E r \in { health(environment.probe) } : response' = r
  /\ pc' = "done"
  /\ op' = "health"
  /\ UNCHANGED << calls, serverFixed >>

NextServer == Chat \/ Translate \/ TranslateFile \/ Health

SpecServer == InitServer /\ [][NextServer]_vars

-----------------------------------------------------------------------------
(* Specification of the translation-request handler                        *)

\* Messages handed to handle_translation_request: the keyword in three
\* capitalisations, with and without a language name, with and without a
\* text to translate.
HandleMessages ==
  { <<"t","r","a","n","s","l","a","t","e"," ","h","e","l","l","o"," ","t","o"," ","s","p","a","n","i","s","h">>, <<"T","r","a","n","s","l","a","t","e"," ","h","e","l","l","o"," ","t","o"," ","S","p","a","n","i","s","h">>,
    <<"T","R","A","N","S","L","A","T","E"," ","h","e","l","l","o"," ","t","o"," ","s","p","a","n","i","s","h">>, <<"t","r","a","n","s","l","a","t","e"," ","h","e","l","l","o"," ","t","o"," ","j","a","p","a","n","e","s","e">>,
    <<"t","r","a","n","s","l","a","t","e"," ","h","e","l","l","o"," ","t","o"," ","f","r","e","n","c","h">>, <<"t","r","a","n","s","l","a","t","e"," ","h","e","l","l","o">>,
    <<"p","l","e","a","s","e"," ","t","r","a","n","s","l","a","t","e"," ","g","o","o","d"," ","m","o","r","n","i","n","g"," ","i","n","t","o"," ","g","e","r","m","a","n">>, <<"t","r","a","n","s","l","a","t","e">>,
    <<"t","r","a","n","s","l","a","t","e"," ","h","e","l","l","o"," ","t","o"," ","e","n","g","l","i","s","h">>, <<"c","a","n"," ","y","o","u"," ","T","r","a","n","s","l","a","t","e"," ","h","e","l","l","o">> }

\* The target_language argument: the output language of the chat request.
HandleTargets == { <<"e","n">>, <<"e","s">>, <<"f","r">>, <<"j","a">> }

InitHandle ==
  /\ pc = "ready"
  /\ op = "none"
  /\ user_message \in HandleMessages
  /\ intent = "none"
  /\ text = << >>
  /\ target_language \in HandleTargets
  /\ source_language = None
  /\ detect_outcome \in { <<"e","n">>, <<"e","s">>, Raises }
  /\ translator_fails \in SUBSET { 1 }
  /\ result = None
  /\ detect_calls = 0
  /\ translate_calls = << >>
  /\ tt_calls = << >>
  /\ LlmIdle /\ SpeechIdle /\ ComplexityIdle /\ ServerIdle

HandleTranslationRequest ==
  /\ pc = "ready"
  /\ \E r \in { handle_translation_request(user_message, target_language,
                                           detect_outcome, translator_fails, 0) } :
         /\ result' = r.ret
         /\ detect_calls' = r.detects
         /\ translate_calls' = r.engine
  /\ pc' = "done"
  /\ op' = "handle_translation_request"
  /\ UNCHANGED << text, target_language, source_language, detect_outcome,
                  translator_fails, tt_calls >>
  /\ UNCHANGED << classifyVars, llmVars, speechVars, complexityVars, serverVars >>

NextHandle == HandleTranslationRequest

SpecHandle == InitHandle /\ [][NextHandle]_vars

-----------------------------------------------------------------------------
(* Specification of the model choice                                       *)

\* Largest number of models the backend reports.
MaxModels == 2

\* Names a backend reports: preferred ones, tagged variants that are not in
\* the preference list, and a model the list does not know.
ReportedNames ==
  { <<"p","h","i">>, <<"p","h","i",":","l","a","t","e","s","t">>, <<"l","l","a","m","a","3">>, <<"l","l","a","m","a","3",":","l","a","t","e","s","t">>, <<"m","i","s","t","r","a","l">>, <<"l","l","a","m","a","3",".","1",":","8","b">>,
    <<"g","e","m","m","a",":","2","b">> }

ModelEntries == { Named(n) : n \in ReportedNames } \cup { Unnamed }

RECURSIVE ModelLists(_)
ModelLists(n) ==
  IF n = 0 THEN { << >> }
  ELSE ModelLists(n - 1)
         \cup { Append(l, e) : l \in { x \in ModelLists(n - 1) : Len(x) = n - 1 },
                               e \in ModelEntries }

TagsOutcomes ==
  { TagsResponse(200, TagsBody("models", l)) : l \in ModelLists(MaxModels) }
    \cup { TagsResponse(200, TagsBody(s, << >>)) :
             s \in { "not json", "array", "no models key", "null models" } }
    \cup { TagsResponse(s, TagsBody("models", << Named(<<"l","l","a","m","a","3">>) >>)) : s \in { 404, 500 } }
    \cup { TagsException(k) : k \in { "ConnectionError", "Timeout", "RequestException" } }

InitModel ==
  /\ pc = "ready"
  /\ op = "none"
  /\ ClassifyIdle
  /\ user_language = None
  /\ llm_outcome \in TagsOutcomes
  /\ TranslateIdle /\ SpeechIdle /\ ComplexityIdle /\ ServerIdle

GetBestAvailableModel ==
  /\ pc = "ready"
  /\ \E r \in { get_best_available_model(llm_outcome) } : result' = r
  /\ pc' = "done"
  /\ op' = "get_best_available_model"
  /\ UNCHANGED << text, target_language, source_language, detect_outcome,
                  translator_fails, detect_calls, translate_calls, tt_calls >>
  /\ UNCHANGED << classifyVars, llmVars, speechVars, complexityVars, serverVars >>

NextModel == GetBestAvailableModel

SpecModel == InitModel /\ [][NextModel]_vars
-----------------------------------------------------------------------------
(* Properties of the translation adapter                                   *)

DoneTranslateText == pc = "done" /\ op = "translate_text"

DoneTranslateFile == pc = "done" /\ op = "translate_file_content"

\* The source language translate_text works with: the given one, or the
\* detected one, which is "en" when detection fails or is unsupported.
EffectiveSource ==
  IF source_language # None THEN source_language
  ELSE IF detect_outcome \in supported_codes THEN detect_outcome
  ELSE <<"e","n">>

\* C1: translate_text(text, target=L, source=L) returns the text unchanged
\* and calls neither the language detector nor the translation engine.
C1_IdentityShortCircuit ==
  (DoneTranslateText /\ source_language = target_language)
    => /\ result = text
       /\ detect_calls = 0
       /\ translate_calls = << >>

\* An idiomatic text was sent with the same source and target language.
C1_Witness ==
  /\ DoneTranslateText
  /\ source_language = target_language
  /\ contains(text, <<"B","r","e","a","k"," ","A"," ","L","e","g">>)
  /\ result = text

\* The text holds a listed idiom phrase, written in some letter case.
HasListedIdiom(t) == contains(t, <<"B","r","e","a","k"," ","A"," ","L","e","g">>) \/ contains(t, <<"P","I","E","C","E"," ","O","F"," ","C","A","K","E">>)

\* C2 as stated: a text with a listed idiom is reported has_idioms, and the
\* output of translate_text holds the idiom note after the translated text
\* for every source, target and engine outcome.
C2_NoteAlways ==
  (DoneTranslateText /\ HasListedIdiom(text))
    => /\ detect_linguistic_complexity(text).has_idioms
       /\ contains(result, <<"\n","\n">> \o idiom_note)

\* C2 amended: a text with a listed idiom (in any letter case) is reported
\* has_idioms; translate_text returns the translated text followed by a
\* blank line and the idiom note when the source differs from the target and
\* the engine answers, the text itself when source and target are equal, and
\* the failure string when the engine raises.
C2_NoteWhenTranslated ==
  (DoneTranslateText /\ HasListedIdiom(text))
    => /\ detect_linguistic_complexity(text).has_idioms
       /\ IF EffectiveSource = target_language THEN result = text
          ELSE IF 1 \in translator_fails
          THEN result = translation_failed \o engine_error
          ELSE startswith(result,
                 translator_translate(text, target_language, EffectiveSource)
                   \o <<"\n","\n">> \o idiom_note)

\* An upper-case idiom was translated by the engine and carries the note.
C2_Witness ==
  /\ DoneTranslateText
  /\ contains(text, <<"P","I","E","C","E"," ","O","F"," ","C","A","K","E">>)
  /\ EffectiveSource # target_language
  /\ 1 \notin translator_fails
  /\ contains(result, idiom_note)

\* What translate_text returns for the request's arguments.
TranslateTextReturn ==
  translate_text(text, target_language, source_language,
                 detect_outcome, translator_fails, 0).ret

\* C3 as stated: for every text of at most max_chunk_size characters, the
\* empty and the whitespace-only ones included, translate_file_content
\* returns what translate_text returns.
C3_ShortEqualsTranslate ==
  (DoneTranslateFile /\ Len(text) <= max_chunk_size)
    => result = TranslateTextReturn

\* C3 amended: for every text of at most max_chunk_size characters that is
\* neither empty nor whitespace-only, translate_file_content returns what
\* translate_text returns and makes that one call; for an empty or
\* whitespace-only text it returns the fixed "empty file" message and calls
\* nothing.
C3_ShortNonBlankEqualsTranslate ==
  (DoneTranslateFile /\ Len(text) <= max_chunk_size)
    => IF strip(text) = << >>
       THEN result = file_empty /\ tt_calls = << >> /\ translate_calls = << >>
       ELSE /\ result = TranslateTextReturn
            /\ tt_calls = << [ text |-> text, ret |-> result ] >>

\* A short text with a paragraph break and whitespace at its edge went
\* through translate_file_content and reached the engine.
C3_Witness ==
  /\ DoneTranslateFile
  /\ Len(text) = max_chunk_size
  /\ contains(text, <<"\n","\n">>)
  /\ strip(text) # text
  /\ translate_calls # << >>
  /\ result = TranslateTextReturn

\* The blank-line-separated paragraphs of the input text.
Paragraphs == split(text, <<"\n","\n">>)

\* The chunks translate_file_content passed to translate_text, in order.
SentChunks == [ n \in 1..Len(tt_calls) |-> tt_calls[n].text ]

\* What translate_text returned for them, in order.
ReturnedChunks == [ n \in 1..Len(tt_calls) |-> tt_calls[n].ret ]

\* The first paragraphs of the runs that the cuts divide 1..count into: a cut
\* c separates paragraph c from paragraph c + 1.
RunStarts(cuts) == { 1 } \cup { c + 1 : c \in cuts }

RunEnd(cuts, lo, count) ==
  IF \E c \in cuts : c >= lo THEN CHOOSE c \in cuts : c >= lo /\ \A d \in cuts : d >= lo => c <= d
  ELSE count

\* The runs of consecutive paragraphs, in order, each << first, last >>.
RECURSIVE RunsFrom(_, _, _)
RunsFrom(cuts, lo, count) ==
  IF lo > count THEN << >>
  ELSE LET hi == RunEnd(cuts, lo, count)
       IN  << << lo, hi >> >> \o RunsFrom(cuts, hi + 1, count)

\* The paragraphs of a run, joined by blank lines as they were in the input.
RunText(run) == join(SubSeq(Paragraphs, run[1], run[2]), <<"\n","\n">>)

NonEmpty(s) == s # << >>

\* A chunk respects the size limit unless its run is one oversized paragraph.
WithinLimit(chunk, run) ==
  \/ Len(chunk) <= max_chunk_size
  \/ run[1] = run[2] /\ Len(Paragraphs[run[1]]) > max_chunk_size

\* C4 as stated: a text longer than max_chunk_size is passed to
\* translate_text as runs of consecutive paragraphs that cover all the
\* paragraphs in order, none dropped or duplicated, each at most
\* max_chunk_size long unless it is a single oversized paragraph, and the
\* result is the translated chunks joined by blank lines.
C4_ChunksAreParagraphRuns ==
  (DoneTranslateFile /\ Len(text) > max_chunk_size)
    => /\ \E cuts \in SUBSET (1..(Len(Paragraphs) - 1)) :
            LET runs == RunsFrom(cuts, 1, Len(Paragraphs))
            IN  /\ SentChunks = [ n \in 1..Len(runs) |-> RunText(runs[n]) ]
                /\ \A n \in 1..Len(runs) : WithinLimit(RunText(runs[n]), runs[n])
       /\ result = join(ReturnedChunks, <<"\n","\n">>)

\* C4 amended: a text longer than max_chunk_size that is not whitespace-only
\* is divided into runs of consecutive paragraphs that cover all the
\* paragraphs in order; each run is stripped of leading and trailing
\* whitespace and passed to translate_text unless nothing is left of it
\* (whitespace-only runs are not sent); each chunk is at most max_chunk_size
\* long unless its run is a single oversized paragraph; the result is the
\* translated chunks joined by blank lines.
C4_ChunksAreStrippedRuns ==
  (DoneTranslateFile /\ Len(text) > max_chunk_size /\ strip(text) # << >>)
    => /\ \E cuts \in SUBSET (1..(Len(Paragraphs) - 1)) :
            LET runs == RunsFrom(cuts, 1, Len(Paragraphs))
                stripped == [ n \in 1..Len(runs) |-> strip(RunText(runs[n])) ]
            IN  /\ SentChunks = SelectSeq(stripped, NonEmpty)
                /\ \A n \in 1..Len(runs) : WithinLimit(stripped[n], runs[n])
       /\ result = join(ReturnedChunks, <<"\n","\n">>)

\* A long text was sent as several chunks, one of them holding two
\* paragraphs, and the engine translated them.
C4_Witness ==
  /\ DoneTranslateFile
  /\ Len(text) > max_chunk_size
  /\ Len(tt_calls) >= 2
  /\ \E n \in 1..Len(tt_calls) : contains(tt_calls[n].text, <<"\n","\n">>)
  /\ Len(translate_calls) = Len(tt_calls)

\* The chunks translate_file_content makes of a text t under this request's
\* languages and collaborators.
ChunksOf(t) ==
  LET tt == translate_file_content(t, target_language, source_language,
                                   detect_outcome, translator_fails).tt
  IN  [ n \in 1..Len(tt) |-> tt[n].text ]

\* C5 as stated: chunking is idempotent for every input text, with empty
\* paragraphs or whitespace at paragraph edges too: chunking the chunks
\* joined by blank lines yields the same chunks.
C5_ChunkingIdempotent ==
  DoneTranslateFile => ChunksOf(join(SentChunks, <<"\n","\n">>)) = SentChunks

\* No paragraph is empty or has whitespace at its edges.
CleanParagraphs ==
  \A n \in 1..Len(Paragraphs) :
    Paragraphs[n] # << >> /\ strip(Paragraphs[n]) = Paragraphs[n]

\* C5 amended: for every input text whose paragraphs are non-empty and have
\* no leading or trailing whitespace, the chunks joined by blank lines are
\* the input text again, and chunking them yields the same chunks.
C5_ChunkingIdempotentOnCleanText ==
  (DoneTranslateFile /\ CleanParagraphs)
    => /\ join(SentChunks, <<"\n","\n">>) = text
       /\ ChunksOf(join(SentChunks, <<"\n","\n">>)) = SentChunks

\* A clean text of three paragraphs was cut into more than one chunk.
C5_Witness ==
  /\ DoneTranslateFile
  /\ CleanParagraphs
  /\ Len(Paragraphs) >= 3
  /\ Len(tt_calls) >= 2


\* C14: translate_text never raises and always returns a string: when the
\* detector fails the source defaults to "en", and when the engine fails the
\* call returns the text "Translation failed: ..." .
C14_TranslateTextNeverRaises ==
  DoneTranslateText =>
    /\ result # Raises
    /\ result \in Seq(STRING)
    /\ ( (source_language = None /\ detect_outcome = Raises) =>
           /\ (target_language = <<"e","n">> => (result = text /\ translate_calls = << >>))
           /\ \A i \in 1..Len(translate_calls) : translate_calls[i].src = <<"e","n">> )
    /\ ( (translate_calls # << >> /\ 1 \in translator_fails) =>
           startswith(result, <<"T","r","a","n","s","l","a","t","i","o","n"," ","f","a","i","l","e","d",":"," ">>) )

\* The detector raised, the source defaulted to "en", and the engine raised.
C14_Witness ==
  /\ DoneTranslateText
  /\ source_language = None
  /\ detect_outcome = Raises
  /\ Len(translate_calls) = 1
  /\ translate_calls[1].src = <<"e","n">>
  /\ 1 \in translator_fails
  /\ result = translation_failed \o engine_error

-----------------------------------------------------------------------------
(* Properties of the query classifier                                      *)

DoneClassify == pc = "done" /\ op = "classify_query"

Intents ==
  { "translation", "sdg_equality", "help_info", "greeting", "language_culture",
    "general_question", "general" }

\* Whether each rule of the fixed order matches the message.
RuleMatches(m) ==
  << any_in(translation_patterns, m),
     any_in(sdg_keywords, m),
     any_in(help_keywords, m),
     any_in(greeting_keywords, m) /\ word_count(m) <= 5,
     any_in(language_culture_keywords, m),
     any_in(technology_keywords, m),
     any_in(question_keywords, m) \/ contains(m, <<"?">>) >>

RuleIntent ==
  << "translation", "sdg_equality", "help_info", "greeting", "language_culture",
     "general_question", "general_question" >>

FirstMatchIntent(m) ==
  LET matches == RuleMatches(m)
      hits == { i \in 1..Len(RuleIntent) : matches[i] }
  IN  IF hits = {} THEN "general"
      ELSE RuleIntent[CHOOSE i \in hits : \A j \in hits : i <= j]

\* C6: classify_query returns the intent of the first rule that matches in
\* the order translation, sdg_equality, help_info, greeting (keyword and at
\* most 5 words), language_culture, general_question (technology keyword,
\* question keyword or '?'), and general when none matches; the result is
\* one of the seven intents, and the three example messages get translation,
\* greeting and general_question.
C6_FirstMatchingRule ==
  DoneClassify =>
    /\ intent \in Intents
    /\ intent = FirstMatchIntent(user_message)
    /\ (user_message = <<"t","r","a","n","s","l","a","t","e"," ","h","e","l","l","o"," ","t","o"," ","s","p","a","n","i","s","h">> => intent = "translation")
    /\ (user_message = <<"h","i">> => intent = "greeting")
    /\ (user_message = <<"w","h","a","t"," ","i","s"," ","t","h","e"," ","d","i","f","f","e","r","e","n","c","e"," ","b","e","t","w","e","e","n"," ","x"," ","a","n","d"," ","y","?">>
          => intent = "general_question")

\* A short message with a help keyword and a greeting keyword is help_info.
C6_Witness ==
  /\ DoneClassify
  /\ user_message = <<"h","e","l","p"," ","h","i">>
  /\ intent = "help_info"

\* C7: a message of more than 5 whitespace-separated words is never a
\* greeting; when it has a greeting keyword and no translation, SDG or help
\* keyword, a later rule classifies it.
C7_GreetingWordGate ==
  (DoneClassify /\ word_count(user_message) > 5) =>
    /\ intent # "greeting"
    /\ ( ( /\ any_in(greeting_keywords, user_message)
           /\ ~ any_in(translation_patterns, user_message)
           /\ ~ any_in(sdg_keywords, user_message)
           /\ ~ any_in(help_keywords, user_message) )
         => intent \in { "language_culture", "general_question", "general" } )

\* A six-word message with a greeting keyword that no later rule matches.
C7_Witness ==
  /\ DoneClassify
  /\ user_message = <<"h","i"," ","x"," ","x"," ","x"," ","x"," ","x">>
  /\ word_count(user_message) = 6
  /\ intent = "general"

-----------------------------------------------------------------------------
(* Properties of the linguistic analyzer                                   *)

DoneComplexity == pc = "done" /\ op = "detect_linguistic_complexity"

\* Number of keywords of the list that occur in the text, in any letter case.
Matching(keywords, t) ==
  Cardinality({ i \in 1..Len(keywords) : contains(lower(t), keywords[i]) })

\* C20: detect_linguistic_complexity returns a complete profile for every
\* string; formality (sentiment) is formal/informal (positive/negative)
\* exactly when that set has strictly more matching keywords than the
\* opposing set and neutral on a tie; the empty string gets neutral
\* formality, no idioms, no cultural references, neutral sentiment and simple
\* grammar.
C20_ProfileTotalAndStrict ==
  DoneComplexity =>
    LET formal   == Matching(formality_formal, text)
        informal == Matching(formality_informal, text)
        positive == Matching(positive_words, text)
        negative == Matching(negative_words, text)
    IN  /\ DOMAIN profile =
             { "has_idioms", "formality_level", "has_cultural_references",
               "sentiment", "grammar_complexity" }
        /\ profile.has_idioms \in BOOLEAN
        /\ profile.has_cultural_references \in BOOLEAN
        /\ profile.grammar_complexity \in { "simple", "moderate", "complex" }
        /\ profile.formality_level =
             (IF formal > informal THEN "formal"
              ELSE IF informal > formal THEN "informal" ELSE "neutral")
        /\ profile.sentiment =
             (IF positive > negative THEN "positive"
              ELSE IF negative > positive THEN "negative" ELSE "neutral")
        /\ (text = << >> =>
              profile =
                [ has_idioms |-> FALSE, formality_level |-> "neutral",
                  has_cultural_references |-> FALSE, sentiment |-> "neutral",
                  grammar_complexity |-> "simple" ])

\* A text with as many formal as informal markers, and more than none, is
\* neutral; its two positive words outweigh its one negative word.
C20_Witness ==
  /\ DoneComplexity
  /\ text = <<"P","l","e","a","s","e"," ","h","e","y"," ","l","o","v","e"," ","H","A","P","P","Y"," ","a","w","f","u","l">>
  /\ profile.formality_level = "neutral"
  /\ profile.sentiment = "positive"

-----------------------------------------------------------------------------
(* Properties of the translation-request handler                           *)

DoneHandle == pc = "done" /\ op = "handle_translation_request"

\* What follows the first "translate", in any capitalisation, in the message.
FollowingText(message) ==
  LET before == split1(lower(message), <<"t","r","a","n","s","l","a","t","e">>)[1]
  IN  strip(SubSeq(message, Len(before) + Len(<<"t","r","a","n","s","l","a","t","e">>) + 1, Len(message)))

\* C24: the handler recognises "translate" in any capitalisation: a message
\* that contains it followed by a non-empty text is answered with
\* "Translation: <translated text>", not with the help message.
C24_KeywordInAnyCase ==
  ( /\ DoneHandle
    /\ contains(lower(user_message), <<"t","r","a","n","s","l","a","t","e">>)
    /\ FollowingText(user_message) # << >> ) =>
    /\ startswith(result, <<"T","r","a","n","s","l","a","t","i","o","n",":"," ">>)
    /\ result # translation_help

\* The supported languages whose display name occurs in the message.
NamedLanguages ==
  { n \in 1..Len(supported_languages) :
      contains(lower(user_message), lower(supported_languages[n][2])) }

\* C25: when the message names exactly one supported language by its
\* display name, the translation engine is asked for the code of that
\* language, whatever codes occur inside other words of the message; when no
\* language is named, it is asked for the target passed by the caller.
C25_TargetIsNamedLanguage ==
  (DoneHandle /\ Len(translate_calls) >= 1) =>
    /\ \A n \in NamedLanguages :
         Cardinality(NamedLanguages) = 1 =>
           translate_calls[1].dest = supported_languages[n][1]
    /\ (NamedLanguages = {} => translate_calls[1].dest = target_language)

-----------------------------------------------------------------------------
(* Properties of the LLM adapter                                           *)

DoneGenerate == pc = "done" /\ op = "generate_response_with_ollama"

DoneAiTranslation == pc = "done" /\ op = "get_ai_translation"

\* The backend answered 200 with a text in the 'response' field.
AnsweredText ==
  /\ llm_outcome.kind = "response"
  /\ llm_outcome.status = 200
  /\ llm_outcome.body \notin { NotJson, NullField }

BeginsWithRefusal(t) == startswith(t, <<"I"," ","c","a","n","n","o","t">>) \/ startswith(t, <<"S","o","r","r","y">>)

\* C8: a 200 answer whose text begins with "I cannot" or "Sorry" is treated
\* as null: generate_response_with_ollama returns the canned fallback and
\* get_ai_translation returns None.
C8_RefusalTreatedAsNull ==
  (AnsweredText /\ BeginsWithRefusal(llm_outcome.body)) =>
    /\ (DoneGenerate => result = get_fallback_response(user_message, user_language))
    /\ (DoneAiTranslation => result = None)

\* The call to the backend failed: a non-200 status, an exception of the
\* request, or an exception while reading the body.
CallFailed ==
  \/ llm_outcome.kind # "response"
  \/ llm_outcome.status # 200
  \/ llm_outcome.body \in { NotJson, NullField }

\* C9: when the call to the backend ends with a non-200 status, a connection
\* failure, a timeout or another exception, generate_response_with_ollama
\* returns get_fallback_response(message, language), get_ai_translation
\* returns None, no exception reaches the caller, and a timeout gives what a
\* connection failure gives.
C9_FailureDegradesToFallback ==
  (pc = "done" /\ CallFailed) =>
    /\ result # Raises
    /\ (DoneGenerate => result = get_fallback_response(user_message, user_language))
    /\ (DoneAiTranslation => result = None)
    /\ ( llm_outcome.kind = "Timeout" =>
           /\ (DoneGenerate =>
                 result = generate_response_with_ollama(
                            user_message, user_language, HttpException("ConnectionError")))
           /\ (DoneAiTranslation =>
                 result = get_ai_translation(HttpException("ConnectionError"))) )

\* A timed-out generation call answered with the canned fallback.
C9_Witness ==
  /\ DoneGenerate
  /\ llm_outcome.kind = "Timeout"
  /\ result = get_fallback_response(user_message, user_language)
  /\ result # None

\* The reply begins, in any letter case, with one of the two disclaimers.
BeginsWithDisclaimer(t) ==
  startswith(lower(t), <<"a","s"," ","a","n"," ","a","i">>) \/ startswith(lower(t), <<"a","s"," ","a">>)

\* The positions of the periods of t.
Periods(t) == { i \in 1..Len(t) : t[i] = "." }

\* What is left of t once its first sentence, up to and including the first
\* period, is discarded.
WithoutFirstSentence(t) ==
  LET first == CHOOSE i \in Periods(t) : \A j \in Periods(t) : i <= j
  IN  strip(SubSeq(t, first + 1, Len(t)))

\* C21: when a 200 reply begins (in any letter case) with "as an ai" or
\* "as a", generate_response_with_ollama discards exactly the text up to and
\* including the first period and returns everything after it (a second
\* sentence beginning with "As a" is kept), and the disclaimer is removed in
\* every such reply: the reply is never returned with it.
C21_OnlyLeadingSentenceRemoved ==
  (DoneGenerate /\ AnsweredText /\ BeginsWithDisclaimer(strip(llm_outcome.body))) =>
    LET reply == strip(llm_outcome.body)
    IN  /\ result # reply
        /\ ( (Periods(reply) # {} /\ Len(WithoutFirstSentence(reply)) > 10) =>
               result = WithoutFirstSentence(reply) )

-----------------------------------------------------------------------------
(* Properties of the model choice                                          *)

DoneModel == pc = "done" /\ op = "get_best_available_model"

PreferredSet == { preferred_models[p] : p \in 1..Len(preferred_models) }

\* The probe answered 200 with a well-formed list of named models.
ProbeListed ==
  /\ llm_outcome.kind = "response"
  /\ llm_outcome.status = 200
  /\ llm_outcome.body.shape = "models"
  /\ \A i \in 1..Len(llm_outcome.body.models) : llm_outcome.body.models[i].named

ReportedByProbe ==
  { llm_outcome.body.models[i].name : i \in 1..Len(llm_outcome.body.models) }

\* C22: get_best_available_model never raises; it returns the first entry
\* of the preference order that is exactly one of the reported model names
\* when the probe answers 200 with such an entry, and "phi" when the probe
\* fails, times out, answers another status, answers a malformed list or
\* reports no preferred model; the result is always in the preference list.
C22_FirstPreferredOrDefault ==
  DoneModel =>
    /\ result # Raises
    /\ result \in PreferredSet
    /\ IF ProbeListed /\ ReportedByProbe \cap PreferredSet # {}
       THEN \E p \in 1..Len(preferred_models) :
               /\ result = preferred_models[p]
               /\ result \in ReportedByProbe
               /\ \A q \in 1..(p - 1) : preferred_models[q] \notin ReportedByProbe
       ELSE result = <<"p","h","i">>

\* The backend listed "phi" before "llama3" and "llama3" was chosen.
C22_Witness ==
  /\ DoneModel
  /\ ProbeListed
  /\ llm_outcome.body.models = << Named(<<"p","h","i">>), Named(<<"l","l","a","m","a","3">>) >>
  /\ result = <<"l","l","a","m","a","3">>

-----------------------------------------------------------------------------
(* Properties of the endpoints                                             *)

DoneChat == pc = "done" /\ op = "chat"

DoneTranslate == pc = "done" /\ op = "translate"

DoneTranslateFileRequest == pc = "done" /\ op = "translate_file"

DoneHealth == pc = "done" /\ op = "health"

\* C12: the health endpoint always answers 200 with status 'healthy';
\* ollama_connected is true only when the version probe returned 200, and
\* false when the backend is unreachable, times out or answers another
\* status; the body lists the codes of the supported-language table.
C12_HealthAlwaysHealthy ==
  DoneHealth =>
    /\ ~ response.raised
    /\ response.status = 200
    /\ response.body.status = <<"h","e","a","l","t","h","y">>
    /\ (response.body.ollama_connected <=>
          (environment.probe.kind = "response" /\ environment.probe.status = 200))
    /\ (environment.probe.kind \in { "ConnectionError", "Timeout" }
          => response.body.ollama_connected = FALSE)
    /\ Len(response.body.supported_languages) = Len(supported_languages)
    /\ \A n \in 1..Len(supported_languages) :
         response.body.supported_languages[n] = supported_languages[n][1]

\* The backend answered the probe with a status other than 200.
C12_Witness ==
  /\ DoneHealth
  /\ environment.probe.kind = "response"
  /\ environment.probe.status = 500
  /\ response.status = 200
  /\ response.body.ollama_connected = FALSE

\* C13: no endpoint lets an exception leave its handler: for every internal
\* failure, a body that is not a JSON object included, the handler returns
\* an error payload (400/500) or a degraded response.
C13_NoExceptionEscapes ==
  pc = "done" =>
    /\ ~ response.raised
    /\ response.status \in { 200, 400, 500 }

\* The target language code the request asks for.
RequestedTarget ==
  IF request.endpoint = "chat" THEN request.output_language
  ELSE request.target_language

\* C15: in every translate, translate-file and chat request the translation
\* engine is only invoked with a target code of the supported-language
\* table, and a request whose target code is outside the table is answered
\* without a translation failure.
C15_OnlySupportedTargets ==
  (DoneChat \/ DoneTranslate \/ DoneTranslateFileRequest) =>
    /\ \A i \in 1..Len(calls.engine) : calls.engine[i].dest \in supported_codes
    /\ ( (DoneTranslate /\ response.status = 200
            /\ RequestedTarget \notin supported_codes)
         => ~ startswith(response.body.translated_text, translation_failed) )

UploadExtension == lower(splitext_ext(request.filename))

\* C16: the translate-file endpoint answers 400 only when no file part is
\* present, the filename is empty, or the content is unsupported or
\* unreadable; every upload with a supported text extension whose bytes
\* decode to text is translated and answered with success = true.
C16_TextUploadsAreTranslated ==
  DoneTranslateFileRequest =>
    /\ ( response.status = 400 =>
           \/ ~ request.has_file
           \/ request.filename = << >>
           \/ UploadExtension \in { <<".","p","d","f">>, <<".","d","o","c">>, <<".","d","o","c","x">> }
           \/ request.file_content.decoding = "error" )
    /\ ( ( /\ request.has_file
           /\ UploadExtension \in text_extensions
           /\ request.file_content.decoding # "error" )
         => (response.status = 200 /\ response.body.success = TRUE) )

\* C17: in every successful translate-file response the original_content
\* preview is at most 500 characters long (preview_length in the model) and
\* char_count is the full length of the extracted text.
C17_PreviewAtMostLimit ==
  (DoneTranslateFileRequest /\ response.status = 200) =>
    /\ Len(response.body.original_content) <= preview_length
    /\ response.body.char_count =
         Len(extract_text_from_file(request.file_content, request.filename))

\* A chat request that was answered with the normal payload.
ChatAnswered == DoneChat /\ response.status = 200

\* The request was handled as a translation request: the LLM adapter was
\* not asked for a reply.
HandledAsTranslation ==
  \A i \in 1..Len(calls.llm) : calls.llm[i] # "generate_response_with_ollama"

\* The reply as generated by the translation-request handler or the LLM
\* adapter from the English-normalized message.
GeneratedReply ==
  chat_reply(response.body.message_processed, request.output_language, environment,
             IF response.body.input_language # <<"e","n">> THEN 1 ELSE 0).ret

\* The condition under which the claim has the reply re-translated.
MustRetranslate ==
  /\ request.output_language # <<"e","n">>
  /\ request.output_language # <<"a","u","t","o">>
  /\ ~ HandledAsTranslation

AskedLLMToTranslate == \E i \in 1..Len(calls.llm) : calls.llm[i] = "get_ai_translation"

\* The last engine call is the plain translation of the reply, and the
\* response is what translate_text returned for it.
PlainlyTranslated(reply) ==
  /\ calls.engine # << >>
  /\ calls.engine[Len(calls.engine)] =
       [ text |-> reply, dest |-> request.output_language, src |-> <<"e","n">> ]
  /\ response.body.response =
       translate_text(reply, request.output_language, <<"e","n">>, Raises,
                      environment.fails, Len(calls.engine) - 1).ret

\* What the claim and its amendment share: when no re-translation is due the
\* reply is returned as generated with a null 'translation'; when it is due,
\* 'translation' holds the generated reply.
RetranslationFrame(reply) ==
  /\ (~ MustRetranslate =>
        /\ response.body.response = reply
        /\ response.body.translation = None
        /\ ~ AskedLLMToTranslate)
  /\ (MustRetranslate => response.body.translation = reply)
  /\ (response.body.translation # None => MustRetranslate)

C19_RoutingAgreesWithClassifier ==
  ChatAnswered =>
    (HandledAsTranslation <=>
       classify_query(lower(response.body.message_processed)) = "translation")

\* The message had to be translated to English and the engine call failed.
NormalisationFailed ==
  /\ ChatAnswered
  /\ response.body.input_language # <<"e","n">>
  /\ Len(calls.engine) >= 1
  /\ 1 \in environment.fails

\* C23: when the input language is not English and translating the message
\* to English fails, chat continues with the original message:
\* message_processed is the original message, and the routing is the one of
\* the original message, not of an error string.
C23_FailedNormalisationKeepsMessage ==
  NormalisationFailed =>
    /\ response.body.message_processed = request.message
    /\ (HandledAsTranslation <=> is_translation_request(request.message))

-----------------------------------------------------------------------------
(* Properties of the speech-to-text handler                                *)

\* C10: when the speech-to-text handler returns, on any exit path, no
\* temporary audio file created by the request exists on disk.
C10_TempFileDeleted ==
  pc = "returned" => created \cap disk = {}

\* The speech backend is unavailable: the library is missing, or no model
\* object exists because loading it failed.
BackendUnavailable == ~ WHISPER_AVAILABLE \/ whisper_model = None

\* The request carries no audio (no body, no 'audio' field, or an empty one).
NoAudio == speech_request.audio = << >>

\* C11: the speech-to-text endpoint answers 400 whenever the speech backend
\* is unavailable or the request carries no audio, and answers 500 only for
\* failures with an available backend and audio present.
C11_UnavailableOrNoAudioIs400 ==
  pc = "returned" =>
    /\ ((BackendUnavailable \/ NoAudio) => status = 400)
    /\ (status = 500 => (~ BackendUnavailable /\ ~ NoAudio))
====
